---- MODULE Spec2Model ----
(***************************************************************************)
(* PayStation SDK: request construction, validation, response parsing and  *)
(* the facade that sequences build -> transport -> parse.                   *)
(*                                                                         *)
(* JavaScript values are tagged records of one shape [t, s, n, e]:         *)
(*   t is the variant (undefined, null, boolean, number, infinity, nan,    *)
(*   string, object), s the text of a string, n the value of a boolean or  *)
(*   of an integer.  A number that is not an integer below 10^9 is kept as *)
(*   its decimal digits: sign n, digits s, and e the position of the       *)
(*   decimal point, the value being n * 0.s * 10^e.  An object carries in  *)
(*   s the text String() gives for it.                                     *)
(* Strings are TLA+ strings; a character is a string of length 1.          *)
(***************************************************************************)
EXTENDS Integers, Sequences, FiniteSets, TLC

(* ----------------------------- JS values ------------------------------ *)

Undefined == [t |-> "undefined", s |-> "", n |-> 0, e |-> 0]
Null      == [t |-> "null", s |-> "", n |-> 0, e |-> 0]
NaN       == [t |-> "nan", s |-> "", n |-> 0, e |-> 0]
Bool(b)   == [t |-> "boolean", s |-> "", n |-> IF b THEN 1 ELSE 0, e |-> 0]
Num(k)    == [t |-> "number", s |-> "", n |-> k, e |-> 0]
Str(x)    == [t |-> "string", s |-> x, n |-> 0, e |-> 0]

\* Infinity (sign 1) and -Infinity (sign -1)
Infinity(sign) == [t |-> "infinity", s |-> "", n |-> sign, e |-> 0]

\* A plain object, as an object literal or JSON.parse gives it
Obj == [t |-> "object", s |-> "[object Object]", n |-> 0, e |-> 0]

\* An array whose elements, stringified and joined by ",", give the text joined
ArrayOf(joined) == [t |-> "object", s |-> joined, n |-> 0, e |-> 0]

\* An object whose own toString and valueOf are not functions, as JSON.parse
\* gives for {"toString": 1, "valueOf": 1}: converting it to a string or a
\* number throws a TypeError
NoPrimitive == [t |-> "object", s |-> "", n |-> 1, e |-> 0]

\* typeof v
TypeOf(v) ==
  CASE v.t = "nan"      -> "number"
    [] v.t = "infinity" -> "number"
    [] v.t = "null"     -> "object"
    [] OTHER            -> v.t

\* ToBoolean(v): the falsy values are undefined, null, false, 0, NaN and "".
Truthy(v) ==
  CASE v.t = "undefined" -> FALSE
    [] v.t = "null"      -> FALSE
    [] v.t = "nan"       -> FALSE
    [] v.t = "boolean"   -> v.n = 1
    [] v.t = "number"    -> v.n # 0
    [] v.t = "string"    -> v.s # ""
    [] OTHER             -> TRUE

\* ToPrimitive(v) returns: false for the object that has no primitive value
CanConvert(v) == ~(v.t = "object" /\ v.n = 1)

(* ----------------------------- strings -------------------------------- *)

CharAt(x, i) == SubSeq(x, i, i)

\* index of the first character of x that is in set cs, Len(x) + 1 when there is none
FirstOf(x, cs) ==
  IF \E i \in 1..Len(x) : CharAt(x, i) \in cs
    THEN CHOOSE i \in 1..Len(x) : CharAt(x, i) \in cs /\ \A k \in 1..(i - 1) : CharAt(x, k) \notin cs
    ELSE Len(x) + 1

\* index of the last character of x that is in set cs, 0 when there is none
LastOf(x, cs) ==
  IF \E i \in 1..Len(x) : CharAt(x, i) \in cs
    THEN CHOOSE i \in 1..Len(x) : CharAt(x, i) \in cs /\ \A k \in (i + 1)..Len(x) : CharAt(x, k) \notin cs
    ELSE 0

\* The white space of String.prototype.trim, of the regular expression class
\* \s and of Number(): those of its characters a string of the model can hold
WhiteSpace == {" ", "\t", "\n", "\r", "\f"}

RECURSIVE TrimStart(_)
TrimStart(x) ==
  IF Len(x) > 0 /\ CharAt(x, 1) \in WhiteSpace
    THEN TrimStart(SubSeq(x, 2, Len(x)))
    ELSE x

RECURSIVE TrimEnd(_)
TrimEnd(x) ==
  IF Len(x) > 0 /\ CharAt(x, Len(x)) \in WhiteSpace
    THEN TrimEnd(SubSeq(x, 1, Len(x) - 1))
    ELSE x

\* String.prototype.trim
Trim(x) == TrimEnd(TrimStart(x))

Digits == "0123456789"

RECURSIVE NatToString(_)
NatToString(k) ==
  IF k < 10 THEN CharAt(Digits, k + 1)
  ELSE NatToString(k \div 10) \o CharAt(Digits, (k % 10) + 1)

\* Number.prototype.toString for an integer
IntToString(k) == IF k < 0 THEN "-" \o NatToString(0 - k) ELSE NatToString(k)

\* String(v); it throws for the object that has no primitive value, for which
\* ToStr has no value.  Number.prototype.toString for a number kept as digits,
\* with k digits and the decimal point after digit p: plain notation when
\* -6 < p <= 21 and exponential notation otherwise.
ToStr(v) ==
  LET k == Len(v.s)
      p == v.e
      x == p - 1
      zeros(c) == SubSeq("000000000000000000000", 1, c)
      exponent == (IF x < 0 THEN "-" ELSE "+") \o NatToString(IF x < 0 THEN 0 - x ELSE x)
      decimal ==
        (IF v.n < 0 THEN "-" ELSE "")
        \o (IF k <= p /\ p <= 21 THEN v.s \o zeros(p - k)
            ELSE IF 0 < p /\ p <= 21 THEN SubSeq(v.s, 1, p) \o "." \o SubSeq(v.s, p + 1, k)
            ELSE IF -6 < p /\ p <= 0 THEN "0." \o zeros(0 - p) \o v.s
            ELSE IF k = 1 THEN v.s \o "e" \o exponent
            ELSE SubSeq(v.s, 1, 1) \o "." \o SubSeq(v.s, 2, k) \o "e" \o exponent)
  IN
  CASE v.t = "undefined" -> "undefined"
    [] v.t = "null"      -> "null"
    [] v.t = "nan"       -> "NaN"
    [] v.t = "infinity"  -> IF v.n < 0 THEN "-Infinity" ELSE "Infinity"
    [] v.t = "boolean"   -> IF v.n = 1 THEN "true" ELSE "false"
    [] v.t = "number"    -> IF v.s = "" THEN IntToString(v.n) ELSE decimal
    [] v.t = "string"    -> v.s
    [] v.t = "object" /\ v.n = 0 -> v.s

DigitValue(c) == (CHOOSE i \in 1..10 : CharAt(Digits, i) = c) - 1

IsDigit(c) == \E i \in 1..10 : CharAt(Digits, i) = c

RECURSIVE DigitsToNat(_)
DigitsToNat(x) ==
  IF Len(x) = 0 THEN 0
  ELSE 10 * DigitsToNat(SubSeq(x, 1, Len(x) - 1)) + DigitValue(CharAt(x, Len(x)))

AllDigits(x) == Len(x) > 0 /\ \A i \in 1..Len(x) : IsDigit(CharAt(x, i))

\* c is a digit of radix r: the digits of radix 16, in either case, are
\* 0123456789abcdef and those of radix r are the first r of them
IsRadixDigit(c, r) ==
  \E i \in 1..r : CharAt("0123456789abcdef", i) = c \/ CharAt("0123456789ABCDEF", i) = c

AllRadixDigits(x, r) == Len(x) > 0 /\ \A i \in 1..Len(x) : IsRadixDigit(CharAt(x, i), r)

\* decimal digits of (the number with decimal digits x) * r + carry
RECURSIVE TimesPlus(_, _, _)
TimesPlus(x, r, carry) ==
  IF Len(x) = 0 THEN (IF carry = 0 THEN "" ELSE NatToString(carry))
  ELSE LET v == DigitValue(CharAt(x, Len(x))) * r + carry
       IN TimesPlus(SubSeq(x, 1, Len(x) - 1), r, v \div 10) \o CharAt(Digits, (v % 10) + 1)

\* decimal digits of the number written x in radix r, "" for zero
RECURSIVE RadixToDecimal(_, _)
RadixToDecimal(x, r) ==
  IF Len(x) = 0 THEN ""
  ELSE LET c == CharAt(x, Len(x))
           value == (CHOOSE i \in 1..16 : IsRadixDigit(c, i) /\ ~IsRadixDigit(c, i - 1)) - 1
       IN TimesPlus(RadixToDecimal(SubSeq(x, 1, Len(x) - 1), r), r, value)

\* x < y for two digit strings read as fractions 0.x and 0.y
RECURSIVE FractionLess(_, _)
FractionLess(x, y) ==
  IF Len(y) = 0 THEN FALSE
  ELSE IF Len(x) = 0 THEN \E i \in 1..Len(y) : CharAt(y, i) # "0"
  ELSE IF CharAt(x, 1) = CharAt(y, 1) THEN FractionLess(SubSeq(x, 2, Len(x)), SubSeq(y, 2, Len(y)))
  ELSE DigitValue(CharAt(x, 1)) < DigitValue(CharAt(y, 1))

\* The double nearest to sign * 0.digits * 10^point, given by the digits
\* String() prints for it.  Beyond the range of a double the value is Infinity
\* (from 2^1024 - 2^970 = 1.7976931348623158079...e308 on) or 0 (up to
\* 2^-1075 = 2.4703282292062327208...e-324).  Within the range the digits of
\* the double are those given when rounding to binary cannot change them: at
\* most 15 significant digits and a value of at least 2^-1022 =
\* 2.2250738585072014e-308 (a normal double), or an integer of 16 digits up to
\* 2^53.  Rounding to binary itself is not part of this model: for every other
\* literal (more significant digits, or a subnormal value) the operator has no
\* value.  An integer of at most nine digits is kept as an integer.
MkNumber(sign, digits, point) ==
  LET lz == Cardinality({ k \in 1..Len(digits) : \A j \in 1..k : CharAt(digits, j) = "0" })
      exact(d, p) ==
        \/ Len(d) <= 15 /\ (p > -307 \/ (p = -307 /\ ~FractionLess(d, "22250738585072014")))
        \/ Len(d) = 16 /\ p = 16 /\ ~FractionLess("9007199254740992", d)
      \* 0.d * 10^p, d without leading zeros
      significant(d, p) ==
        IF d = "" THEN Num(0)
        ELSE IF p > 309 \/ (p = 309 /\ ~FractionLess(d, "1797693134862315808"))
          THEN Infinity(sign)
        ELSE IF p < -323 \/ (p = -323 /\ FractionLess(d, "24703282292062327208"))
          THEN Num(0)
        ELSE IF Len(d) <= p /\ p <= 9
          THEN Num(sign * DigitsToNat(d) * 10^(p - Len(d)))
        ELSE CASE exact(d, p) -> [t |-> "number", s |-> d, n |-> sign, e |-> p]
      withoutTrailingZeros(d) ==
        SubSeq(d, 1, Len(d) - Cardinality({ k \in 1..Len(d) : \A j \in k..Len(d) : CharAt(d, j) = "0" }))
  IN significant(withoutTrailingZeros(SubSeq(digits, lz + 1, Len(digits))), point - lz)

\* Number(string): the StringNumericLiteral grammar on the trimmed text: empty
\* is 0; Infinity with an optional sign; an unsigned 0x, 0o or 0b literal; a
\* decimal literal with an optional sign (digits with an optional "." and an
\* optional exponent part, at least one digit before the exponent); anything
\* else is NaN.  An exponent of more than four digits is capped: it is beyond
\* the range of a double anyway.  The value of a literal is that of MkNumber,
\* which has none where the literal's digits are not those of a double.
StringToNumber(x) ==
  LET integer(d) == MkNumber(1, d, Len(d))
      \* the value of exponent digits
      exponent(digits, zeros) ==
        IF Len(digits) - zeros > 4 THEN 9999 ELSE DigitsToNat(SubSeq(digits, zeros + 1, Len(digits)))
      \* mantissa m, exponent part ex ("" when there is none, hasExponent telling)
      parts(sign, m, hasExponent, ex) ==
        LET exSign == IF Len(ex) > 0 /\ CharAt(ex, 1) = "-" THEN -1 ELSE 1
            exDigits == IF Len(ex) > 0 /\ CharAt(ex, 1) \in {"+", "-"} THEN SubSeq(ex, 2, Len(ex)) ELSE ex
            exZeros == Cardinality({ k \in 1..Len(exDigits) : \A j \in 1..k : CharAt(exDigits, j) = "0" })
            dots == { i \in 1..Len(m) : CharAt(m, i) = "." }
            dot == IF dots = {} THEN Len(m) + 1 ELSE CHOOSE i \in dots : TRUE
            whole == SubSeq(m, 1, dot - 1)
            fraction == SubSeq(m, dot + 1, Len(m))
        IN IF /\ Cardinality(dots) <= 1
              /\ \A i \in 1..Len(m) : IsDigit(CharAt(m, i)) \/ CharAt(m, i) = "."
              /\ Len(m) > Cardinality(dots)
              /\ (hasExponent => AllDigits(exDigits))
             THEN MkNumber(sign, whole \o fraction, Len(whole) + exSign * exponent(exDigits, exZeros))
             ELSE NaN
      \* an unsigned decimal literal, split at its first "e" or "E"
      decimal(sign, u) ==
        LET e == FirstOf(u, {"e", "E"}) IN
        IF e > Len(u) THEN parts(sign, u, FALSE, "")
        ELSE parts(sign, SubSeq(u, 1, e - 1), TRUE, SubSeq(u, e + 1, Len(u)))
      \* y is the trimmed text
      literal(y) ==
        LET prefix == SubSeq(y, 1, IF Len(y) < 2 THEN Len(y) ELSE 2)
            rest == SubSeq(y, 3, Len(y))
            signed == Len(y) > 0 /\ CharAt(y, 1) \in {"+", "-"}
            sign == IF Len(y) > 0 /\ CharAt(y, 1) = "-" THEN -1 ELSE 1
        IN
        IF y = "" THEN Num(0)
        ELSE IF y \in {"Infinity", "+Infinity", "-Infinity"} THEN Infinity(sign)
        ELSE IF prefix \in {"0x", "0X"} /\ AllRadixDigits(rest, 16) THEN integer(RadixToDecimal(rest, 16))
        ELSE IF prefix \in {"0o", "0O"} /\ AllRadixDigits(rest, 8) THEN integer(RadixToDecimal(rest, 8))
        ELSE IF prefix \in {"0b", "0B"} /\ AllRadixDigits(rest, 2) THEN integer(RadixToDecimal(rest, 2))
        ELSE decimal(sign, IF signed THEN SubSeq(y, 2, Len(y)) ELSE y)
  IN literal(Trim(x))

\* Number(v); it throws for the object that has no primitive value, for which
\* ToNumber has no value.  Any other object converts through its string.
ToNumber(v) ==
  CASE v.t = "undefined" -> NaN
    [] v.t = "null"      -> Num(0)
    [] v.t = "nan"       -> NaN
    [] v.t = "infinity"  -> v
    [] v.t = "boolean"   -> Num(v.n)
    [] v.t = "number"    -> v
    [] v.t = "string"    -> StringToNumber(v.s)
    [] v.t = "object" /\ v.n = 0 -> StringToNumber(v.s)

\* How a number compares with the integer k of at most nine digits: -1 below,
\* 0 equal, 1 above
CompareNumber(v, k) ==
  IF v.t = "infinity" THEN v.n
  ELSE IF v.s = "" THEN (IF v.n < k THEN -1 ELSE IF v.n = k THEN 0 ELSE 1)
  ELSE IF v.e > 9 THEN v.n
  ELSE LET whole == IF v.e <= 0 THEN 0 ELSE DigitsToNat(SubSeq(v.s, 1, v.e))
       IN IF v.n > 0 THEN (IF whole >= k THEN 1 ELSE -1)
          ELSE (IF whole >= 0 - k THEN -1 ELSE 1)

(* ------------------------------ objects ------------------------------- *)

\* A value that may be an object: v is the value itself (its variant tells
\* whether it is an object) and o maps the object's field names to values,
\* Undefined standing for an absent field.
\* Property read x.f on a non-null value: undefined unless x is an object
\* with named fields (an array, or an object without a primitive form, has
\* none of the fields read here).
Get(x, f) == IF x.v = Obj THEN x.o[f] ELSE Undefined

(* ------------------------------ errors -------------------------------- *)

NoCause == << >>

\* new PayStationError(message, statusCode?, originalError?)
PayStationError(message, statusCode, originalError) ==
  [kind |-> "PayStationError", message |-> message,
   statusCode |-> statusCode, originalError |-> originalError]

\* new ValidationError(message): super(message)
ValidationError(message) ==
  [PayStationError(message, Undefined, NoCause) EXCEPT !.kind = "ValidationError"]

\* new AuthenticationError(message, statusCode): super(message, statusCode)
AuthenticationError(message, statusCode) ==
  [PayStationError(message, statusCode, NoCause) EXCEPT !.kind = "AuthenticationError"]

\* new NetworkError(message, originalError): super(message, undefined, originalError)
NetworkError(message, originalError) ==
  [PayStationError(message, Undefined, originalError) EXCEPT !.kind = "NetworkError"]

\* An error that is not part of the SDK's hierarchy (TypeError, RangeError, ...)
ForeignError(kind, message) ==
  [kind |-> kind, message |-> message, statusCode |-> Undefined, originalError |-> NoCause]

\* The TypeError String(v) and Number(v) throw for the object without primitive value
ConversionError == ForeignError("TypeError", "Cannot convert object to primitive value")

\* The value of "no error was raised"
NoError == [kind |-> "none", message |-> "", statusCode |-> Undefined, originalError |-> NoCause]

\* error instanceof PayStationError (the base class of the three subtypes)
KnownKinds == {"PayStationError", "ValidationError", "AuthenticationError", "NetworkError"}

(* --------------------------- ConfigManager ---------------------------- *)

SANDBOX == "sandbox"
LIVE    == "live"

\* Object.values(Environment)
Environments == {SANDBOX, LIVE}

BASE_URLS ==
  (SANDBOX :> "https://sandbox.paystation.com.bd/api") @@
  (LIVE :> "https://api.paystation.com.bd")

\* validateConfig without the trim checks: blank credentials pass
validateConfig_NoBlankCheck(config) ==
  IF ~Truthy(config.v)
    THEN ValidationError("Configuration is required")
  ELSE IF TypeOf(Get(config, "merchantId")) # "string"
    THEN ValidationError("merchantId is required and must be a non-empty string")
  ELSE IF TypeOf(Get(config, "password")) # "string"
    THEN ValidationError("password is required and must be a non-empty string")
  ELSE IF ~Truthy(Get(config, "environment"))
    THEN ValidationError("environment is required")
  ELSE IF Get(config, "environment").t = "string" /\ Get(config, "environment").s \in Environments
    THEN NoError
  ELSE IF ~CanConvert(Get(config, "environment"))
    THEN ConversionError
  ELSE ValidationError("Invalid environment: " \o ToStr(Get(config, "environment"))
                         \o ". Must be one of: sandbox, live")

\* ConfigManager.validateConfig: the error it throws, NoError when it returns
validateConfig(config) ==
  IF ~Truthy(config.v)
    THEN ValidationError("Configuration is required")
  ELSE IF TypeOf(Get(config, "merchantId")) # "string"
    THEN ValidationError("merchantId is required and must be a non-empty string")
  ELSE IF Len(Trim(Get(config, "merchantId").s)) = 0
    THEN ValidationError("merchantId cannot be empty or whitespace only")
  ELSE IF TypeOf(Get(config, "password")) # "string"
    THEN ValidationError("password is required and must be a non-empty string")
  ELSE IF Len(Trim(Get(config, "password").s)) = 0
    THEN ValidationError("password cannot be empty or whitespace only")
  ELSE IF ~Truthy(Get(config, "environment"))
    THEN ValidationError("environment is required")
  ELSE IF Get(config, "environment").t = "string" /\ Get(config, "environment").s \in Environments
    THEN NoError
  ELSE IF ~CanConvert(Get(config, "environment"))
    THEN ConversionError
  ELSE ValidationError("Invalid environment: " \o ToStr(Get(config, "environment"))
                         \o ". Must be one of: sandbox, live")

\* A config whose environment reads "sandbox" whatever it holds
getBaseUrl_AlwaysSandbox(cfg) == BASE_URLS[SANDBOX]

\* ConfigManager.getBaseUrl: the table's entry; a key the table lacks reads as
\* undefined, which the builders' template literals render as "undefined"
getBaseUrl(cfg) ==
  IF cfg["environment"].t = "string" /\ cfg["environment"].s \in DOMAIN BASE_URLS
    THEN BASE_URLS[cfg["environment"].s]
    ELSE "undefined"
getMerchantId(cfg) == cfg["merchantId"].s
getPassword(cfg) == cfg["password"].s
getEnvironment(cfg) == cfg["environment"].s

(* ----------------------------- HttpClient ----------------------------- *)

\* The JavaScript runtimes createSWRFetcher distinguishes
Runtimes == {"browser", "node-fetch-native", "node-fetch-package", "node-no-fetch", "no-global"}

\* HttpClient.createSWRFetcher: the error it throws, NoError when a fetcher is found
createSWRFetcher(runtime) ==
  IF runtime = "browser" THEN NoError
  ELSE IF runtime = "node-fetch-native" THEN NoError
  ELSE IF runtime = "node-fetch-package" THEN NoError
  ELSE IF runtime = "node-no-fetch"
    THEN NetworkError("No fetch implementation available. Please install node-fetch for Node.js environments or use Node.js 18+", NoCause)
  ELSE NetworkError("Unsupported environment - no fetch implementation available", NoCause)

(* --------------------------- RequestBuilder --------------------------- *)

\* validateRequiredString that does not trim: white space only passes
validateRequiredString_NoTrim(value, fieldName) ==
  IF TypeOf(value) # "string"
    THEN ValidationError(fieldName \o " is required and must be a string")
  ELSE IF Len(value.s) = 0
    THEN ValidationError(fieldName \o " cannot be empty or whitespace only")
  ELSE NoError

\* RequestBuilder.validateRequiredString: the error it throws, NoError when it returns
validateRequiredString(value, fieldName) ==
  IF TypeOf(value) # "string"
    THEN ValidationError(fieldName \o " is required and must be a string")
  ELSE IF Len(Trim(value.s)) = 0
    THEN ValidationError(fieldName \o " cannot be empty or whitespace only")
  ELSE NoError

validateInvoiceNumber(invoiceNumber) == validateRequiredString(invoiceNumber, "invoiceNumber")

validateTransactionId(transactionId) == validateRequiredString(transactionId, "transactionId")

\* [^\s@]
EmailChar(c) == c \notin WhiteSpace /\ c # "@"

\* every character of x[from..to] is in [^\s@], and the range is not empty
EmailRun(x, from, to) == from <= to /\ \A k \in from..to : EmailChar(CharAt(x, k))

\* An email test that asks for no "." after the "@": /^[^\s@]+@[^\s@]+$/
isValidEmail_NoDotNeeded(email) ==
  LET x == ToStr(email) IN
  \E i \in 1..Len(x) :
    /\ CharAt(x, i) = "@"
    /\ EmailRun(x, 1, i - 1)
    /\ EmailRun(x, i + 1, Len(x))

\* RequestBuilder.isValidEmail: /^[^\s@]+@[^\s@]+\.[^\s@]+$/.test(email)
isValidEmail(email) ==
  LET x == ToStr(email) IN
  \E i \in 1..Len(x) : \E j \in 1..Len(x) :
    /\ CharAt(x, i) = "@"
    /\ CharAt(x, j) = "."
    /\ i < j
    /\ EmailRun(x, 1, i - 1)
    /\ EmailRun(x, i + 1, j - 1)
    /\ EmailRun(x, j + 1, Len(x))

(* new URL(url): the URL parser, as far as it decides whether an http(s)    *)
(* URL parses.  Characters are handled by code; the characters a string    *)
(* can hold here are tab, line feed, form feed, carriage return and         *)
(* U+0020..U+007E.                                                          *)

\* The characters U+0020..U+007E in code order.  U+0060 cannot be written in
\* a string here; "_" stands in its place, which like it is no digit, no
\* dot, no letter and not forbidden in a host.
Ascii ==
  " !\"#$%&'()*+,-./0123456789:;<=>?@ABCDEFGHIJKLMNOPQRSTUVWXYZ[\\]^__abcdefghijklmnopqrstuvwxyz{|}~"

CodeOf(c) ==
  CASE c = "\t" -> 9
    [] c = "\n" -> 10
    [] c = "\f" -> 12
    [] c = "\r" -> 13
    [] OTHER    -> 31 + FirstOf(Ascii, {c})

\* The string of a sequence of codes in U+0020..U+007E
RECURSIVE CodesToString(_)
CodesToString(codes) ==
  IF Len(codes) = 0 THEN "" ELSE CharAt(Ascii, Head(codes) - 31) \o CodesToString(Tail(codes))

IsAlpha(c) == CodeOf(c) \in (65..90) \cup (97..122)

\* ASCII lower-casing of a string of characters in U+0020..U+007E
ToLower(x) ==
  CodesToString([i \in 1..Len(x) |->
                   LET k == CodeOf(CharAt(x, i)) IN IF k \in 65..90 THEN k + 32 ELSE k])

RECURSIVE SkipSlashes(_)
SkipSlashes(x) ==
  IF Len(x) > 0 /\ CharAt(x, 1) \in {"/", "\\"} THEN SkipSlashes(SubSeq(x, 2, Len(x))) ELSE x

\* x without its characters in set cs
RECURSIVE Without(_, _)
Without(x, cs) ==
  IF Len(x) = 0 THEN ""
  ELSE (IF CharAt(x, 1) \in cs THEN "" ELSE CharAt(x, 1)) \o Without(SubSeq(x, 2, Len(x)), cs)

\* The parser first strips leading and trailing C0 controls and spaces, then
\* removes every tab and newline
UrlInput(x) ==
  LET kept == { i \in 1..Len(x) : CharAt(x, i) \notin {" ", "\t", "\n", "\r", "\f"} }
      first == CHOOSE i \in kept : \A j \in kept : i <= j
      last == CHOOSE i \in kept : \A j \in kept : j <= i
  IN IF kept = {} THEN "" ELSE Without(SubSeq(x, first, last), {"\t", "\n", "\r"})

\* Scheme start state and scheme state: alpha *( alpha / digit / "+" / "-" / "." )
\* before the first ":", lower-cased; "" when the input does not start with a
\* scheme (with no base URL the parse then fails).
UrlScheme(x) ==
  LET before(y, c) ==
        IF c <= Len(y) /\ c > 1 /\ IsAlpha(CharAt(y, 1))
           /\ \A k \in 1..(c - 1) :
                IsAlpha(CharAt(y, k)) \/ IsDigit(CharAt(y, k)) \/ CharAt(y, k) \in {"+", "-", "."}
          THEN ToLower(SubSeq(y, 1, c - 1))
          ELSE ""
      ofInput(y) == before(y, FirstOf(y, {":"}))
  IN ofInput(UrlInput(x))

\* x split at every c, as String.prototype.split does
RECURSIVE SplitOn(_, _)
SplitOn(x, c) ==
  LET i == FirstOf(x, {c}) IN
  IF i > Len(x) THEN <<x>> ELSE <<SubSeq(x, 1, i - 1)>> \o SplitOn(SubSeq(x, i + 1, Len(x)), c)

\* Percent-decode: the bytes of x, "%XX" giving the byte XX
RECURSIVE PercentDecode(_)
PercentDecode(x) ==
  IF Len(x) = 0 THEN << >>
  ELSE IF CharAt(x, 1) = "%" /\ Len(x) >= 3
          /\ IsRadixDigit(CharAt(x, 2), 16) /\ IsRadixDigit(CharAt(x, 3), 16)
    THEN <<DigitsToNat(RadixToDecimal(SubSeq(x, 2, 3), 16))>> \o PercentDecode(SubSeq(x, 4, Len(x)))
  ELSE <<CodeOf(CharAt(x, 1))>> \o PercentDecode(SubSeq(x, 2, Len(x)))

\* The bytes are well-formed UTF-8 (a malformed sequence decodes to U+FFFD,
\* which no domain may hold)
RECURSIVE WellFormedUtf8(_)
WellFormedUtf8(b) ==
  IF Len(b) = 0 THEN TRUE
  ELSE LET k == b[1]
           In(i, lo, hi) == Len(b) >= i /\ b[i] >= lo /\ b[i] <= hi
           After(n) == WellFormedUtf8(SubSeq(b, n + 1, Len(b)))
       IN IF k < 128 THEN After(1)
          ELSE IF k >= 194 /\ k <= 223 THEN In(2, 128, 191) /\ After(2)
          ELSE IF k = 224 THEN In(2, 160, 191) /\ In(3, 128, 191) /\ After(3)
          ELSE IF k = 237 THEN In(2, 128, 159) /\ In(3, 128, 191) /\ After(3)
          ELSE IF k >= 225 /\ k <= 239 THEN In(2, 128, 191) /\ In(3, 128, 191) /\ After(3)
          ELSE IF k = 240 THEN In(2, 144, 191) /\ In(3, 128, 191) /\ In(4, 128, 191) /\ After(4)
          ELSE IF k >= 241 /\ k <= 243
            THEN In(2, 128, 191) /\ In(3, 128, 191) /\ In(4, 128, 191) /\ After(4)
          ELSE IF k = 244 THEN In(2, 128, 143) /\ In(3, 128, 191) /\ In(4, 128, 191) /\ After(4)
          ELSE FALSE

\* IPv4 number parser: the decimal digits of the number, without leading zeros
\* ("" for zero), or "failure"
IPv4Number(part) ==
  LET hex == Len(part) >= 2 /\ SubSeq(part, 1, 2) \in {"0x", "0X"}
      octal == ~hex /\ Len(part) >= 2 /\ CharAt(part, 1) = "0"
      R == IF hex THEN 16 ELSE IF octal THEN 8 ELSE 10
      digits == IF hex THEN SubSeq(part, 3, Len(part))
                ELSE IF octal THEN SubSeq(part, 2, Len(part)) ELSE part
  IN IF part = "" THEN "failure"
     ELSE IF digits = "" THEN ""
     ELSE IF ~AllRadixDigits(digits, R) THEN "failure"
     ELSE RadixToDecimal(digits, R)

\* Host parser for a domain: percent-decode, domain to ASCII (which lower-cases
\* ASCII letters), forbidden domain code points, and the IPv4 parser when the
\* domain ends in a number.
\* Forbidden domain code points: the forbidden host code points (NULL, tab,
\* LF, CR, space, # / : < > ? @ [ \ ] ^ |), the C0 controls, % and DEL.
\* Ends-in-a-number checker: the last part, one empty last part dropped, is
\* all digits or parses as an IPv4 number.
\* IPv4 parser: at most four numbers, all but the last at most 255, the last
\* below 256^(5 - count).
\* Domain to ASCII of a name with characters beyond ASCII or with a Punycode
\* label depends on the Unicode IDNA tables, which are not part of this model:
\* for such a name the operator has no value.
DomainParses(buffer) ==
  LET forbiddenCodes == (0..32) \cup {35, 37, 47, 58, 60, 62, 63, 64, 91, 92, 93, 94, 124, 127}
      \* a < b for two numbers given by their decimal digits without leading zeros
      less(a, b) == Len(a) < Len(b) \/ (Len(a) = Len(b) /\ FractionLess(a, b))
      limit(n) == CASE n = 1 -> "4294967296" [] n = 2 -> "16777216" [] n = 3 -> "65536" [] OTHER -> "256"
      ipv4(parts, n) ==
        /\ n <= 4
        /\ \A i \in 1..n : IPv4Number(parts[i]) # "failure"
        /\ \A i \in 1..(n - 1) : less(IPv4Number(parts[i]), "256")
        /\ less(IPv4Number(parts[n]), limit(n))
      endsInNumber(last) == AllDigits(last) \/ IPv4Number(last) # "failure"
      ofParts(parts) == endsInNumber(parts[Len(parts)]) => ipv4(parts, Len(parts))
      punycode(labels) ==
        \E i \in 1..Len(labels) : Len(labels[i]) >= 4 /\ SubSeq(labels[i], 1, 4) = "xn--"
      ofLabels(labels) ==
        CASE ~punycode(labels) ->
          ofParts(IF labels[Len(labels)] = "" /\ Len(labels) > 1
                    THEN SubSeq(labels, 1, Len(labels) - 1) ELSE labels)
      ofBytes(bytes) ==
        LET ascii == \A i \in 1..Len(bytes) : bytes[i] < 128
            forbidden == Len(bytes) = 0 \/ \E i \in 1..Len(bytes) : bytes[i] \in forbiddenCodes
        IN CASE ~ascii /\ ~WellFormedUtf8(bytes) -> FALSE
             [] ascii /\ forbidden -> FALSE
             [] ascii /\ ~forbidden -> ofLabels(SplitOn(ToLower(CodesToString(bytes)), "."))
  IN ofBytes(PercentDecode(buffer))

\* IPv6 parser from position p on, pieceIndex pieces read, compressed when
\* "::" has been seen.  A piece is up to four hex digits; the address may end
\* in an IPv4 tail: four decimal numbers up to 255, without leading zeros,
\* "." between them.
RECURSIVE IPv6Loop(_, _, _, _)
IPv6Loop(x, p, pieceIndex, compressed) ==
  LET ipv4(parts) ==
        /\ Len(parts) = 4
        /\ \A i \in 1..4 :
             /\ AllDigits(parts[i])
             /\ Len(parts[i]) <= 3
             /\ (Len(parts[i]) = 1 \/ CharAt(parts[i], 1) # "0")
             /\ DigitsToNat(parts[i]) <= 255
      \* after a piece of length hex digits, which ends before position q
      piece(length, q) ==
        IF q > Len(x) THEN compressed \/ pieceIndex + 1 = 8
        ELSE IF CharAt(x, q) = "."
          THEN /\ length > 0
               /\ pieceIndex <= 6
               /\ ipv4(SplitOn(SubSeq(x, p, Len(x)), "."))
               /\ (compressed \/ pieceIndex + 2 = 8)
        ELSE IF CharAt(x, q) = ":"
          THEN q + 1 <= Len(x) /\ IPv6Loop(x, q + 1, pieceIndex + 1, compressed)
        ELSE FALSE
      pieceOf(length) == piece(length, p + length)
  IN
  IF p > Len(x) THEN compressed \/ pieceIndex = 8
  ELSE IF pieceIndex = 8 THEN FALSE
  ELSE IF CharAt(x, p) = ":" THEN ~compressed /\ IPv6Loop(x, p + 1, pieceIndex + 1, TRUE)
  ELSE pieceOf(Cardinality({ k \in 1..4 : \A j \in 0..(k - 1) :
                               p + j <= Len(x) /\ IsRadixDigit(CharAt(x, p + j), 16) }))

\* What follows "scheme:" of a special-scheme URL parses: after any slashes
\* the authority runs to the first "/", "\", "?" or "#"; the host follows the
\* last "@" and precedes the port, which follows the first ":" outside "[" and
\* "]"; the host is not empty and parses, as an IPv6 address when it is in
\* brackets and as a domain otherwise; the port is decimal and at most 65535.
\* Path, query and fragment never fail.
UrlHostOk(rest) ==
  LET inRange(number) == Len(number) <= 5 /\ DigitsToNat(number) <= 65535
      portOk(port) == port = "" \/ (AllDigits(port) /\ inRange(RadixToDecimal(port, 10)))
      ipv6(address) ==
        IF Len(address) > 0 /\ CharAt(address, 1) = ":"
          THEN Len(address) >= 2 /\ CharAt(address, 2) = ":" /\ IPv6Loop(address, 3, 1, TRUE)
          ELSE IPv6Loop(address, 1, 0, FALSE)
      hostOk(host) ==
        /\ Len(host) > 0
        /\ IF CharAt(host, 1) = "["
             THEN CharAt(host, Len(host)) = "]" /\ ipv6(SubSeq(host, 2, Len(host) - 1))
             ELSE DomainParses(host)
      hostAndPort(hostport, colon) ==
        /\ hostOk(SubSeq(hostport, 1, colon - 1))
        /\ portOk(SubSeq(hostport, colon + 1, Len(hostport)))
      \* the index of the first ":" of hostport outside "[" "]", Len(hostport) + 1
      \* when there is none
      outside(hostport, i) ==
        LET b == LastOf(SubSeq(hostport, 1, i - 1), {"[", "]"}) IN b = 0 \/ CharAt(hostport, b) = "]"
      firstColon(hostport) ==
        LET colons == { i \in 1..Len(hostport) : CharAt(hostport, i) = ":" /\ outside(hostport, i) }
        IN IF colons = {} THEN Len(hostport) + 1 ELSE CHOOSE i \in colons : \A j \in colons : i <= j
      ofHostport(hostport) == hostAndPort(hostport, firstColon(hostport))
      ofAuthority(authority) ==
        ofHostport(SubSeq(authority, LastOf(authority, {"@"}) + 1, Len(authority)))
      afterSlashes(r) == ofAuthority(SubSeq(r, 1, FirstOf(r, {"/", "\\", "?", "#"}) - 1))
      ofInput(input) == afterSlashes(SkipSlashes(SubSeq(input, 3, Len(input))))
  IN ofInput(UrlInput("x:" \o rest))

\* A URL test that accepts every scheme new URL(url) parses with a host
isValidUrl_AnyScheme(url) ==
  LET ofInput(x) == UrlScheme(x) # "" /\ UrlHostOk(SubSeq(x, FirstOf(x, {":"}) + 1, Len(x)))
  IN ofInput(UrlInput(ToStr(url)))

\* RequestBuilder.isValidUrl: new URL(url) parses and its protocol is http: or
\* https:.  For any other scheme the result is false whether the parse throws
\* or not.
isValidUrl(url) ==
  LET ofInput(x) ==
        UrlScheme(x) \in {"http", "https"} /\ UrlHostOk(SubSeq(x, FirstOf(x, {":"}) + 1, Len(x)))
  IN ofInput(UrlInput(ToStr(url)))

\* RequestBuilder.validateInitiatePaymentParams: the error it throws, NoError when it returns
validateInitiatePaymentParams(params) ==
  LET invoiceNumber == validateRequiredString(Get(params, "invoiceNumber"), "invoiceNumber")
      customerName  == validateRequiredString(Get(params, "customerName"), "customerName")
      customerPhone == validateRequiredString(Get(params, "customerPhone"), "customerPhone")
      customerEmail == validateRequiredString(Get(params, "customerEmail"), "customerEmail")
      callbackUrl   == validateRequiredString(Get(params, "callbackUrl"), "callbackUrl")
      paymentAmount == Get(params, "paymentAmount")
      payWithCharge == Get(params, "payWithCharge")
      emi           == Get(params, "emi")
      \* a < 0 and a <= 0 for a value of type number: both false for NaN
      negative(a)   == a.t # "nan" /\ CompareNumber(a, 0) < 0
      notAbove(a)   == a.t # "nan" /\ CompareNumber(a, 0) <= 0
  IN
  IF ~Truthy(params.v) THEN ValidationError("Payment parameters are required")
  ELSE IF invoiceNumber # NoError THEN invoiceNumber
  ELSE IF customerName # NoError THEN customerName
  ELSE IF customerPhone # NoError THEN customerPhone
  ELSE IF customerEmail # NoError THEN customerEmail
  ELSE IF callbackUrl # NoError THEN callbackUrl
  ELSE IF TypeOf(paymentAmount) # "number"
    THEN ValidationError("paymentAmount must be a number")
  ELSE IF notAbove(paymentAmount)
    THEN ValidationError("paymentAmount must be greater than 0")
  ELSE IF payWithCharge # Undefined /\ TypeOf(payWithCharge) # "number"
    THEN ValidationError("payWithCharge must be a number")
  ELSE IF payWithCharge # Undefined /\ negative(payWithCharge)
    THEN ValidationError("payWithCharge cannot be negative")
  ELSE IF emi # Undefined /\ TypeOf(emi) # "number"
    THEN ValidationError("emi must be a number")
  ELSE IF emi # Undefined /\ negative(emi)
    THEN ValidationError("emi cannot be negative")
  ELSE IF ~isValidEmail(Get(params, "customerEmail"))
    THEN ValidationError("customerEmail must be a valid email address")
  ELSE IF ~isValidUrl(Get(params, "callbackUrl"))
    THEN ValidationError("callbackUrl must be a valid URL")
  ELSE NoError

\* The headers every built request carries
FormHeaders ==
  ("Content-Type" :> "application/x-www-form-urlencoded") @@ ("Accept" :> "application/json")

\* The value of "no request was built"
NoRequest == [url |-> "", method |-> "", headers |-> << >>, body |-> << >>]

\* if (value) formData.append(key, value)
AppendIfTruthy(key, value) == IF Truthy(value) THEN << <<key, ToStr(value)>> >> ELSE << >>

\* if (value !== undefined) formData.append(key, value.toString())
AppendIfDefined(key, value) == IF value # Undefined THEN << <<key, ToStr(value)>> >> ELSE << >>

\* RequestBuilder.buildInitiatePaymentRequest: [err, request]; err is the
\* error thrown (then no request is returned) or NoError.  formData.append
\* converts the value to a string, and throws the TypeError of the conversion
\* when an optional parameter appended when truthy has no primitive form.
buildInitiatePaymentRequest(cfg, params) ==
  LET appendedWhenTruthy ==
        {"currency", "reference", "customerAddress", "checkoutItems", "optA", "optB", "optC"}
  IN
  IF validateInitiatePaymentParams(params) # NoError
    THEN [err |-> validateInitiatePaymentParams(params), request |-> NoRequest]
  ELSE IF \E f \in appendedWhenTruthy : Truthy(Get(params, f)) /\ ~CanConvert(Get(params, f))
    THEN [err |-> ConversionError, request |-> NoRequest]
  ELSE
    [err |-> NoError,
     request |->
       [url |-> getBaseUrl(cfg) \o "/initiate-payment",
        method |-> "POST",
        headers |-> FormHeaders,
        body |->
          << <<"merchant_id", getMerchantId(cfg)>>,
             <<"password", getPassword(cfg)>>,
             <<"invoice_number", ToStr(Get(params, "invoiceNumber"))>>,
             <<"payment_amount", ToStr(Get(params, "paymentAmount"))>>,
             <<"customer_name", ToStr(Get(params, "customerName"))>>,
             <<"customer_phone", ToStr(Get(params, "customerPhone"))>>,
             <<"customer_email", ToStr(Get(params, "customerEmail"))>>,
             <<"callback_url", ToStr(Get(params, "callbackUrl"))>> >>
          \o AppendIfTruthy("currency", Get(params, "currency"))
          \o AppendIfDefined("pay_with_charge", Get(params, "payWithCharge"))
          \o AppendIfTruthy("reference", Get(params, "reference"))
          \o AppendIfTruthy("customer_address", Get(params, "customerAddress"))
          \o AppendIfTruthy("checkout_items", Get(params, "checkoutItems"))
          \o AppendIfTruthy("opt_a", Get(params, "optA"))
          \o AppendIfTruthy("opt_b", Get(params, "optB"))
          \o AppendIfTruthy("opt_c", Get(params, "optC"))
          \o AppendIfDefined("emi", Get(params, "emi"))]]

\* RequestBuilder.buildTransactionStatusRequest
buildTransactionStatusRequest(cfg, invoiceNumber) ==
  LET err == validateInvoiceNumber(invoiceNumber) IN
  IF err # NoError THEN [err |-> err, request |-> NoRequest]
  ELSE
    [err |-> NoError,
     request |->
       [url |-> getBaseUrl(cfg) \o "/transaction-status",
        method |-> "POST",
        headers |-> FormHeaders,
        body |->
          << <<"merchant_id", getMerchantId(cfg)>>,
             <<"password", getPassword(cfg)>>,
             <<"invoice_number", ToStr(invoiceNumber)>> >>]]

\* buildTransactionStatusByIdRequest that sends the identifier trimmed
buildTransactionStatusByIdRequest_Trimmed(cfg, transactionId) ==
  LET err == validateTransactionId(transactionId) IN
  IF err # NoError THEN [err |-> err, request |-> NoRequest]
  ELSE
    [err |-> NoError,
     request |->
       [url |-> getBaseUrl(cfg) \o "/v2/transaction-status",
        method |-> "POST",
        headers |-> FormHeaders,
        body |->
          << <<"merchant_id", getMerchantId(cfg)>>,
             <<"password", getPassword(cfg)>>,
             <<"trx_id", Trim(ToStr(transactionId))>> >>]]

\* RequestBuilder.buildTransactionStatusByIdRequest
buildTransactionStatusByIdRequest(cfg, transactionId) ==
  LET err == validateTransactionId(transactionId) IN
  IF err # NoError THEN [err |-> err, request |-> NoRequest]
  ELSE
    [err |-> NoError,
     request |->
       [url |-> getBaseUrl(cfg) \o "/v2/transaction-status",
        method |-> "POST",
        headers |-> FormHeaders,
        body |->
          << <<"merchant_id", getMerchantId(cfg)>>,
             <<"password", getPassword(cfg)>>,
             <<"trx_id", ToStr(transactionId)>> >>]]

(* --------------------------- ResponseParser --------------------------- *)

\* A response is [v, status, statusText, data]: v is the response value itself
\* (an object, or null/undefined when the transport returned nothing), status a
\* JS value, statusText a string and data the body [v, o, d]: v the body value,
\* o its fields when it is an object, d the fields of the nested object
\* body.data when that is an object.

\* The value of "no result was returned"
NoResult == << >>

\* ResponseParser.validateResponseStructure: the error it throws, NoError when it returns
validateResponseStructure(response) ==
  IF ~Truthy(response.v)
    THEN ValidationError("Response is null or undefined")
  ELSE IF response.data.v = Null \/ response.data.v = Undefined
    THEN ValidationError("Response data is null or undefined")
  ELSE IF TypeOf(response.data.v) # "object"
    THEN ValidationError("Response data is not an object")
  ELSE NoError

\* if (value !== undefined) record[key] = String(value)
CopyAsString(key, value) == IF value # Undefined THEN key :> Str(ToStr(value)) ELSE << >>

\* ResponseParser.parseTransactionData: [err, result]; data is [v, o].
\* String(value) and Number(value) throw a TypeError when the value is an
\* object without a primitive form; whichever converted field throws first,
\* the error is the same.
parseTransactionData(data) ==
  LET converted ==
        {"invoiceNumber", "transactionId", "paymentAmount", "orderDateTime", "payerMobileNumber",
         "reference", "checkoutItems", "transactionAmount", "transactionDate", "requestAmount"}
  IN
  IF ~Truthy(data.v) \/ TypeOf(data.v) # "object"
    THEN [err |-> ValidationError("Invalid transaction data format"), result |-> NoResult]
  ELSE IF ~Truthy(Get(data, "invoiceNumber")) \/ ~Truthy(Get(data, "transactionStatus"))
          \/ ~Truthy(Get(data, "transactionId"))
    THEN [err |-> ValidationError("Invalid transaction data: missing required fields"),
          result |-> NoResult]
  ELSE IF \E f \in converted : ~CanConvert(Get(data, f))
    THEN [err |-> ConversionError, result |-> NoResult]
  ELSE
    [err |-> NoError,
     result |->
       ("invoiceNumber" :> Str(ToStr(Get(data, "invoiceNumber"))))
       @@ ("transactionStatus" :> Get(data, "transactionStatus"))
       @@ ("transactionId" :> Str(ToStr(Get(data, "transactionId"))))
       @@ ("paymentAmount" :>
             Str(ToStr(IF Truthy(Get(data, "paymentAmount")) THEN Get(data, "paymentAmount") ELSE Str(""))))
       @@ ("orderDateTime" :>
             Str(ToStr(IF Truthy(Get(data, "orderDateTime")) THEN Get(data, "orderDateTime") ELSE Str(""))))
       @@ CopyAsString("payerMobileNumber", Get(data, "payerMobileNumber"))
       @@ (IF Get(data, "paymentMethod") # Undefined
             THEN "paymentMethod" :> Get(data, "paymentMethod") ELSE << >>)
       @@ CopyAsString("reference", Get(data, "reference"))
       @@ CopyAsString("checkoutItems", Get(data, "checkoutItems"))
       @@ (IF Get(data, "transactionAmount") # Undefined
             THEN "transactionAmount" :> ToNumber(Get(data, "transactionAmount")) ELSE << >>)
       @@ CopyAsString("transactionDate", Get(data, "transactionDate"))
       @@ CopyAsString("requestAmount", Get(data, "requestAmount"))]

\* parseInitiatePaymentResponse that looks at the status before it checks that
\* the required fields are there
parseInitiatePaymentResponse_FailedFirst(response) ==
  LET structure == validateResponseStructure(response)
      data == response.data
      converted == {"statusCode", "message", "paymentAmount", "invoiceNumber", "paymentUrl"}
  IN
  IF structure # NoError THEN [err |-> structure, result |-> NoResult]
  ELSE IF Get(data, "status") = Str("failed")
    THEN [err |-> IF CanConvert(Get(data, "message"))
                    THEN PayStationError(ToStr(Get(data, "message")), Get(data, "statusCode"), NoCause)
                    ELSE ConversionError,
          result |-> NoResult]
  ELSE IF ~Truthy(Get(data, "statusCode")) \/ ~Truthy(Get(data, "status")) \/ ~Truthy(Get(data, "message"))
    THEN [err |-> ValidationError("Invalid response format: missing required fields (statusCode, status, message)"),
          result |-> NoResult]
  ELSE IF \E f \in converted : ~CanConvert(Get(data, f))
    THEN [err |-> ConversionError, result |-> NoResult]
  ELSE
    [err |-> NoError,
     result |->
       ("statusCode" :> Str(ToStr(Get(data, "statusCode"))))
       @@ ("status" :> Get(data, "status"))
       @@ ("message" :> Str(ToStr(Get(data, "message"))))
       @@ CopyAsString("paymentAmount", Get(data, "paymentAmount"))
       @@ CopyAsString("invoiceNumber", Get(data, "invoiceNumber"))
       @@ CopyAsString("paymentUrl", Get(data, "paymentUrl"))]

\* ResponseParser.parseInitiatePaymentResponse: [err, result]
parseInitiatePaymentResponse(response) ==
  LET structure == validateResponseStructure(response)
      data == response.data
      converted == {"statusCode", "message", "paymentAmount", "invoiceNumber", "paymentUrl"}
  IN
  IF structure # NoError THEN [err |-> structure, result |-> NoResult]
  ELSE IF ~Truthy(Get(data, "statusCode")) \/ ~Truthy(Get(data, "status")) \/ ~Truthy(Get(data, "message"))
    THEN [err |-> ValidationError("Invalid response format: missing required fields (statusCode, status, message)"),
          result |-> NoResult]
  ELSE IF Get(data, "status") = Str("failed")
    THEN [err |-> IF CanConvert(Get(data, "message"))
                    THEN PayStationError(ToStr(Get(data, "message")), Get(data, "statusCode"), NoCause)
                    ELSE ConversionError,
          result |-> NoResult]
  ELSE IF \E f \in converted : ~CanConvert(Get(data, f))
    THEN [err |-> ConversionError, result |-> NoResult]
  ELSE
    [err |-> NoError,
     result |->
       ("statusCode" :> Str(ToStr(Get(data, "statusCode"))))
       @@ ("status" :> Get(data, "status"))
       @@ ("message" :> Str(ToStr(Get(data, "message"))))
       @@ CopyAsString("paymentAmount", Get(data, "paymentAmount"))
       @@ CopyAsString("invoiceNumber", Get(data, "invoiceNumber"))
       @@ CopyAsString("paymentUrl", Get(data, "paymentUrl"))]

\* ResponseParser.parseTransactionStatusResponse: [err, result]
parseTransactionStatusResponse(response) ==
  LET structure == validateResponseStructure(response)
      data == response.data
      nested == parseTransactionData([v |-> Get(data, "data"), o |-> data.d])
  IN
  IF structure # NoError THEN [err |-> structure, result |-> NoResult]
  ELSE IF ~Truthy(Get(data, "statusCode")) \/ ~Truthy(Get(data, "status")) \/ ~Truthy(Get(data, "message"))
    THEN [err |-> ValidationError("Invalid response format: missing required fields (statusCode, status, message)"),
          result |-> NoResult]
  ELSE IF Get(data, "status") = Str("failed")
    THEN [err |-> IF CanConvert(Get(data, "message"))
                    THEN PayStationError(ToStr(Get(data, "message")), Get(data, "statusCode"), NoCause)
                    ELSE ConversionError,
          result |-> NoResult]
  ELSE IF ~CanConvert(Get(data, "statusCode")) \/ ~CanConvert(Get(data, "message"))
    THEN [err |-> ConversionError, result |-> NoResult]
  ELSE IF Truthy(Get(data, "data")) /\ nested.err # NoError
    THEN [err |-> nested.err, result |-> NoResult]
  ELSE
    [err |-> NoError,
     result |->
       ("statusCode" :> Str(ToStr(Get(data, "statusCode"))))
       @@ ("status" :> Get(data, "status"))
       @@ ("message" :> Str(ToStr(Get(data, "message"))))
       @@ (IF Truthy(Get(data, "data")) THEN "data" :> nested.result ELSE << >>)]

\* extractErrorMessage taking any present message field, falsy ones included
extractErrorMessage_AnyPresent(response) ==
  LET data == response.data IN
  IF Truthy(data.v) /\ TypeOf(data.v) = "object" /\ Get(data, "message") # Undefined
       /\ CanConvert(Get(data, "message"))
    THEN Str(ToStr(Get(data, "message")))
    ELSE Null

\* ResponseParser.extractErrorMessage: the message as a string value, or null;
\* null too when String(message) throws, which the catch block swallows
extractErrorMessage(response) ==
  LET data == response.data IN
  IF Truthy(data.v) /\ TypeOf(data.v) = "object" /\ Truthy(Get(data, "message"))
       /\ CanConvert(Get(data, "message"))
    THEN Str(ToStr(Get(data, "message")))
    ELSE Null

\* a || b
OrElse(a, b) == IF Truthy(a) THEN a ELSE b

\* parseErrorResponse treating only 401, not 403, as an authentication failure
parseErrorResponse_Only401(response) ==
  IF response.v = Undefined \/ response.v = Null
    THEN ForeignError("TypeError",
                      "Cannot read properties of " \o ToStr(response.v) \o " (reading 'status')")
  ELSE IF response.status = Num(401)
    THEN AuthenticationError(OrElse(extractErrorMessage(response), Str("Authentication failed")).s,
                             Str(ToStr(response.status)))
  ELSE IF response.status = Num(400)
    THEN ValidationError(OrElse(extractErrorMessage(response), Str("Invalid request parameters")).s)
  ELSE IF ~CanConvert(response.status)
    THEN ConversionError
  ELSE PayStationError(
         OrElse(extractErrorMessage(response),
                Str("HTTP " \o ToStr(response.status) \o ": " \o response.statusText)).s,
         Str(ToStr(response.status)), NoCause)

\* ResponseParser.parseErrorResponse: the error it throws (it never returns).
\* Reading response.status of a response that is null or undefined throws.
parseErrorResponse(response) ==
  IF response.v = Undefined \/ response.v = Null
    THEN ForeignError("TypeError",
                      "Cannot read properties of " \o ToStr(response.v) \o " (reading 'status')")
  ELSE IF response.status = Num(401) \/ response.status = Num(403)
    THEN AuthenticationError(OrElse(extractErrorMessage(response), Str("Authentication failed")).s,
                             Str(ToStr(response.status)))
  ELSE IF response.status = Num(400)
    THEN ValidationError(OrElse(extractErrorMessage(response), Str("Invalid request parameters")).s)
  ELSE IF ~CanConvert(response.status)
    THEN ConversionError
  ELSE PayStationError(
         OrElse(extractErrorMessage(response),
                Str("HTTP " \o ToStr(response.status) \o ": " \o response.statusText)).s,
         Str(ToStr(response.status)), NoCause)

(* ------------------------------ facade -------------------------------- *)

Operations == {"initiatePayment", "getTransactionStatus", "getTransactionStatusById"}

\* The request-building step of each facade method
BuildRequest(operation, cfg, arg) ==
  CASE operation = "initiatePayment"      -> buildInitiatePaymentRequest(cfg, arg)
    [] operation = "getTransactionStatus" -> buildTransactionStatusRequest(cfg, arg.v)
    [] OTHER                              -> buildTransactionStatusByIdRequest(cfg, arg.v)

\* The success-path parser each facade method uses
ParseResponse(operation, response) ==
  IF operation = "initiatePayment"
    THEN parseInitiatePaymentResponse(response)
    ELSE parseTransactionStatusResponse(response)

\* The fixed description each facade method gives an unexpected failure
UnexpectedMessage(operation) ==
  CASE operation = "initiatePayment" ->
         "An unexpected error occurred during payment initiation"
    [] operation = "getTransactionStatus" ->
         "An unexpected error occurred during transaction status check"
    [] OTHER ->
         "An unexpected error occurred during transaction status check by ID"

\* A catch block that wraps every error, known kinds included
Rethrow_AlwaysWrap(operation, error) ==
  PayStationError(UnexpectedMessage(operation), Undefined, <<error>>)

\* The catch block of each facade method: the error the caller receives
Rethrow(operation, error) ==
  IF error.kind \in KnownKinds
    THEN error
    ELSE PayStationError(UnexpectedMessage(operation), Undefined, <<error>>)

\* A status test that lets status 400 through: response.status > 400
IsHttpError_Above400(response) ==
  LET k == ToNumber(response.status) IN k.t # "nan" /\ CompareNumber(k, 400) > 0

\* response.status >= 400
IsHttpError(response) ==
  LET k == ToNumber(response.status) IN k.t # "nan" /\ CompareNumber(k, 400) >= 0

\* What the body of the try block does once the transport call has settled
\* with [err, response]: [err, result] before the catch block is applied
AfterTransport(operation, outcome) ==
  IF outcome.err # NoError
    THEN [err |-> outcome.err, result |-> NoResult]
  ELSE IF outcome.response.v = Undefined \/ outcome.response.v = Null
    THEN [err |-> ForeignError("TypeError", "Cannot read properties of "
                                 \o ToStr(outcome.response.v) \o " (reading 'status')"),
          result |-> NoResult]
  ELSE IF ~CanConvert(outcome.response.status)
    THEN [err |-> ConversionError, result |-> NoResult]
  ELSE IF IsHttpError(outcome.response)
    THEN [err |-> parseErrorResponse(outcome.response), result |-> NoResult]
  ELSE ParseResponse(operation, outcome.response)

(* ------------------------------ inputs -------------------------------- *)

\* An enumerated input is a reference input with some of its fields edited.
\* How many fields of the reference input an enumerated input may differ in:
MaxParamEdits == 2
MaxBodyEdits == 2

\* The edits <<field, value>> that give field f each of the values alts
AltEdits(f, alts) == [i \in 1..Len(alts) |-> <<f, alts[i]>>]

\* The choices of at most k edits among n: increasing sequences of indices
RECURSIVE EditChoices(_, _)
EditChoices(n, k) ==
  IF k = 0 THEN { << >> }
  ELSE LET S == EditChoices(n, k - 1) IN
       S \cup UNION { { Append(c, i) : i \in (IF c = << >> THEN 1 ELSE c[Len(c)] + 1)..n } :
                      c \in { x \in S : Len(x) = k - 1 } }

\* x with the chosen edits made to its field map named part ("o" or "d")
RECURSIVE ApplyEdits(_, _, _, _)
ApplyEdits(x, part, edits, c) ==
  IF c = << >> THEN x
  ELSE ApplyEdits([x EXCEPT ![part][edits[Head(c)][1]] = edits[Head(c)][2]], part, edits, Tail(c))

ConfigFields == {"merchantId", "password", "environment"}

NoConfig == [f \in ConfigFields |-> Undefined]

ConfigInputs ==
  { [v |-> Obj, o |-> [merchantId |-> m, password |-> p, environment |-> e]] :
      m \in {Undefined, Null, Str(""), Str("  "), Str("\f"), Num(7), Str("m1")},
      p \in {Undefined, Str(""), Str(" \t"), Bool(TRUE), Str("pw")},
      e \in {Undefined, Str(""), Str(SANDBOX), Str(LIVE), Str("production"), Num(1),
              ArrayOf(SANDBOX), NoPrimitive} }
  \cup { [v |-> x, o |-> NoConfig] : x \in {Undefined, Null, Str("cfg")} }

ParamFields ==
  {"invoiceNumber", "currency", "paymentAmount", "payWithCharge", "reference",
   "customerName", "customerPhone", "customerEmail", "customerAddress", "callbackUrl",
   "checkoutItems", "optA", "optB", "optC", "emi"}

AbsentParams == [f \in ParamFields |-> Undefined]

\* The reference input: the six required fields, valid, and no optional field
BaseParams ==
  [v |-> Obj,
   o |-> [AbsentParams EXCEPT
            !["invoiceNumber"] = Str("INV-1"),
            !["paymentAmount"] = Num(100),
            !["customerName"] = Str("John"),
            !["customerPhone"] = Str("017"),
            !["customerEmail"] = Str("john@example.com"),
            !["callbackUrl"] = Str("https://x.com/cb")]]

\* The other values the fields take in the enumerated inputs
RequiredStringAlts == <<Undefined, Str(""), Str(" "), Str("\f"), Num(5), Str(" a b ")>>
EmailAlts ==
  <<Undefined, Str(" "), Str("no-at-sign"), Str("a@b"), Str("a@b.c"), Str("a b@c.d"), Str("a@@b.c"),
    Str("@b.c"), Str("a@.c"), Str("a@b."), Str("a\f@b.c")>>
UrlAlts ==
  <<Undefined, Str(""), Str("ftp://x.com"), Str("x.com/cb"), Str("http://"), Str("HTTP://x.com:80"),
    Str(" https://x.com/cb "), Str("ht\ttps://x.com"), Str("http://[::1]:80/"),
    Str("http://u:p@1.2.3.4:8080/cb?a=1#f"), Str("http://256.1.1.1"), Str("https://x\f.com"),
    Str("http://a%20b.com"), Str("http://x.com:65536")>>
AmountAlts ==
  <<Undefined, Str("10"), Num(0), Num(-1), Num(1), NaN, MkNumber(1, "995", 2), Infinity(1), Infinity(-1)>>
OptionalNumberAlts ==
  <<Num(0), Num(5), Num(-1), NaN, Str("1"), Null, MkNumber(1, "5", 0), MkNumber(-1, "5", 0)>>
OptionalStringAlts == <<Str(""), Str("BDT")>>

\* The currency is also given as a value of another type: the arrays ["BDT"]
\* and [], a number, and an object without a primitive form
ParamEdits ==
  AltEdits("invoiceNumber", RequiredStringAlts)
  \o AltEdits("customerName", RequiredStringAlts)
  \o AltEdits("customerPhone", RequiredStringAlts)
  \o AltEdits("customerEmail", EmailAlts)
  \o AltEdits("callbackUrl", UrlAlts)
  \o AltEdits("paymentAmount", AmountAlts)
  \o AltEdits("payWithCharge", OptionalNumberAlts)
  \o AltEdits("emi", OptionalNumberAlts)
  \o AltEdits("currency", OptionalStringAlts \o <<ArrayOf("BDT"), ArrayOf(""), Num(5), NoPrimitive>>)
  \o AltEdits("reference", OptionalStringAlts \o <<Str(" r 1 ")>>)
  \o AltEdits("customerAddress", OptionalStringAlts)
  \o AltEdits("checkoutItems", OptionalStringAlts)
  \o AltEdits("optA", OptionalStringAlts)
  \o AltEdits("optB", OptionalStringAlts)
  \o AltEdits("optC", OptionalStringAlts)

\* Params that are not objects: absent, null, a falsy and a truthy primitive
NonObjectParams == <<Undefined, Null, Num(0), Str("params")>>

\* Inputs of direct builder calls, as picks <<kind, choice>>
ParamPicks ==
  ({"o"} \X EditChoices(Len(ParamEdits), MaxParamEdits))
  \cup ({"v"} \X { <<i>> : i \in 1..Len(NonObjectParams) })

\* Inputs of facade calls: the reference input and its one-field variants
CallParamPicks ==
  ({"o"} \X EditChoices(Len(ParamEdits), 1))
  \cup ({"v"} \X { <<i>> : i \in 1..Len(NonObjectParams) })

\* The params a pick stands for
ParamsOf(pick) ==
  IF pick[1] = "o"
    THEN ApplyEdits(BaseParams, "o", ParamEdits, pick[2])
    ELSE [v |-> NonObjectParams[pick[2][1]], o |-> AbsentParams]

Identifiers ==
  { [v |-> x, o |-> AbsentParams] :
      x \in {Undefined, Null, Num(5), Str(""), Str("  "), Str("\f"), Str("INV-1"), Str(" TXN 1 ")} }

BodyFields ==
  {"statusCode", "status", "message", "paymentAmount", "invoiceNumber", "paymentUrl", "data"}

TxnFields ==
  {"invoiceNumber", "transactionStatus", "transactionId", "paymentAmount", "orderDateTime",
   "payerMobileNumber", "paymentMethod", "reference", "checkoutItems",
   "transactionAmount", "transactionDate", "requestAmount"}

AbsentBody == [f \in BodyFields |-> Undefined]
AbsentTxn == [f \in TxnFields |-> Undefined]

\* The reference body: a success body carrying a transaction record
BaseBody ==
  [v |-> Obj,
   o |-> [AbsentBody EXCEPT
            !["statusCode"] = Str("200"),
            !["status"] = Str("success"),
            !["message"] = Str("ok"),
            !["paymentAmount"] = Str("10.00"),
            !["invoiceNumber"] = Str("INV-1"),
            !["data"] = Obj],
   d |-> [AbsentTxn EXCEPT
            !["invoiceNumber"] = Str("INV-1"),
            !["transactionStatus"] = Str("success"),
            !["transactionId"] = Str("TXN1"),
            !["paymentAmount"] = Str("10.00"),
            !["paymentMethod"] = Str("bKash")]]

\* Edits of the body's own fields
BodyEdits ==
  AltEdits("statusCode", <<Undefined, Null, Str(""), Num(0), Num(2001)>>)
  \o AltEdits("status", <<Undefined, Str(""), Str("failed"), Str("pending"), Num(1)>>)
  \o AltEdits("message", <<Undefined, Null, Str(""), Num(0), Bool(FALSE), Str("bad creds"), Num(7),
                           ArrayOf(""), ArrayOf("e1,e2"), NoPrimitive>>)
  \o AltEdits("data", <<Undefined, Null, Str(""), Str("x"), Num(0), Num(5), Bool(TRUE)>>)
  \o AltEdits("paymentUrl", <<Str(""), Str("https://pay/1"), Null>>)
  \o AltEdits("paymentAmount", <<Undefined, Num(0), Num(10)>>)
  \o AltEdits("invoiceNumber", <<Undefined, Num(0), Num(10)>>)

\* Edits of the fields of the nested transaction record
TxnEdits ==
  AltEdits("invoiceNumber", <<Undefined, Str(""), Num(0), Num(9)>>)
  \o AltEdits("transactionId", <<Undefined, Str(""), Num(0), Num(9)>>)
  \o AltEdits("transactionStatus", <<Undefined, Str(""), Str("processing"), Str("refund"), Str("unknown")>>)
  \o AltEdits("paymentAmount", <<Undefined, Num(0), Str(""), Num(15)>>)
  \o AltEdits("orderDateTime", <<Num(0), Str(""), Str("2024-01-01")>>)
  \o AltEdits("transactionAmount", <<Num(0), Num(100), Str("100"), Str("abc"), Null, Str("100.50"),
                                     Str("0x10"), ArrayOf("5"), NoPrimitive>>)
  \o AltEdits("paymentMethod", <<Undefined, Num(0)>>)
  \o AltEdits("payerMobileNumber", <<Str(""), Str("017"), Num(0)>>)
  \o AltEdits("reference", <<Str(""), Str("ref"), Num(0)>>)
  \o AltEdits("checkoutItems", <<Str(""), Str("items"), Null>>)
  \o AltEdits("transactionDate", <<Str(""), Str("2024-01-01"), Num(0)>>)
  \o AltEdits("requestAmount", <<Str(""), Str("10.00"), Num(0)>>)

\* Bodies without named fields: no body, JSON null, raw text, a JSON number or
\* boolean, and the empty JSON array
NonObjectBodies == <<Undefined, Null, Str(""), Str("<html>"), Num(0), Bool(TRUE), ArrayOf("")>>

\* Bodies handed to the success-path parsers directly, as picks <<kind, choice>>:
\* edits of the body's own fields, edits of the nested record, or a non-object
BodyPicks ==
  ({"o"} \X EditChoices(Len(BodyEdits), MaxBodyEdits))
  \cup ({"d"} \X EditChoices(Len(TxnEdits), MaxBodyEdits))
  \cup ({"v"} \X { <<i>> : i \in 1..Len(NonObjectBodies) })

\* Bodies the transport returns and parseErrorResponse is handed: the
\* reference body, its one-field variants and the non-objects
CallBodyPicks ==
  ({"o"} \X EditChoices(Len(BodyEdits), 1))
  \cup ({"d"} \X EditChoices(Len(TxnEdits), 1))
  \cup ({"v"} \X { <<i>> : i \in 1..Len(NonObjectBodies) })

\* The body a pick stands for
BodyOf(pick) ==
  CASE pick[1] = "o" -> ApplyEdits(BaseBody, "o", BodyEdits, pick[2])
    [] pick[1] = "d" -> ApplyEdits(BaseBody, "d", TxnEdits, pick[2])
    [] OTHER -> [v |-> NonObjectBodies[pick[2][1]], o |-> AbsentBody, d |-> AbsentTxn]

StatusText(k) ==
  CASE k = 200 -> "OK"
    [] k = 302 -> "Found"
    [] k = 400 -> "Bad Request"
    [] k = 401 -> "Unauthorized"
    [] k = 403 -> "Forbidden"
    [] k = 404 -> "Not Found"
    [] OTHER   -> ""

Response(k, text, body) == [v |-> Obj, status |-> Num(k), statusText |-> text, data |-> body]

\* A transport that returned nothing
NoResponse ==
  [v |-> Undefined, status |-> Undefined, statusText |-> "",
   data |-> [v |-> Undefined, o |-> AbsentBody, d |-> AbsentTxn]]

(* ------------------------ HttpClient.request -------------------------- *)

\* String.prototype.includes
Includes(x, sub) ==
  \E i \in 1..(Len(x) - Len(sub) + 1) : SubSeq(x, i, i + Len(sub) - 1) = sub

\* A response body that holds text, as response.text() returns it
TextBody(x) == [v |-> Str(x), o |-> AbsentBody, d |-> AbsentTxn]

\* How the fetcher's promise can reject: TypeErrors of fetch itself, a
\* TypeError of something else, an abort, a plain Error, and errors of the
\* SDK's hierarchy thrown by a custom fetcher
FetchFailures ==
  { ForeignError("TypeError", "fetch failed"),
    ForeignError("TypeError", "Failed to fetch"),
    ForeignError("TypeError", "Invalid URL"),
    ForeignError("AbortError", "This operation was aborted"),
    ForeignError("Error", "socket hang up"),
    NetworkError("proxy unreachable", NoCause),
    ValidationError("rejected by fetcher") }

\* What reading the body of a fetched Response gives: [json, text], each the
\* settled call [err, data] of response.json() and response.text()
FetchedBodies ==
  { [json |-> [err |-> NoError, data |-> BaseBody],
     text |-> [err |-> NoError, data |-> TextBody("{\"status\":\"success\"}")]],
    [json |-> [err |-> ForeignError("SyntaxError", "Unexpected token <"), data |-> TextBody("")],
     text |-> [err |-> NoError, data |-> TextBody("<html>")]],
    [json |-> [err |-> ForeignError("SyntaxError", "Unexpected end of JSON input"), data |-> TextBody("")],
     text |-> [err |-> NoError, data |-> TextBody("")]],
    [json |-> [err |-> ForeignError("AbortError", "This operation was aborted"), data |-> TextBody("")],
     text |-> [err |-> ForeignError("AbortError", "This operation was aborted"), data |-> TextBody("")]],
    [json |-> [err |-> ForeignError("TypeError", "Body is unusable"), data |-> TextBody("")],
     text |-> [err |-> ForeignError("TypeError", "Body is unusable"), data |-> TextBody("")]] }

\* response.headers.get('content-type')
ContentTypes ==
  { Null, Str(""), Str("application/json"), Str("application/json; charset=utf-8"),
    Str("text/html"), Str("Application/JSON") }

FetchStatuses == {200, 500}

\* No Response: what the fetch outcome holds when the promise rejected or
\* resolved with nothing
NoFetched ==
  [json |-> [err |-> NoError, data |-> TextBody("")],
   text |-> [err |-> NoError, data |-> TextBody("")]]

\* The outcomes of this.fetcher(url, requestInit): the promise rejects, resolves
\* with something that is no Response (a custom fetcher: nothing, or a value
\* without headers), or resolves with a Response
FetchOutcomes ==
  { [fetch |-> e, resolved |-> Undefined, contentType |-> Null, status |-> 0,
     statusText |-> "", body |-> NoFetched] : e \in FetchFailures }
  \cup
  { [fetch |-> NoError, resolved |-> x, contentType |-> Null, status |-> 0,
     statusText |-> "", body |-> NoFetched] : x \in {Undefined, Null, Num(5), Str("ok")} }
  \cup
  { [fetch |-> NoError, resolved |-> Obj, contentType |-> c, status |-> k,
     statusText |-> StatusText(k), body |-> b] :
       c \in ContentTypes, k \in FetchStatuses, b \in FetchedBodies }

\* The catch block of request without its first test: a NetworkError caught is
\* wrapped like any other error
CatchInRequest_AlwaysWraps(error) ==
  IF error.kind = "TypeError" /\ Includes(error.message, "fetch")
    THEN NetworkError("Network request failed - please check your internet connection", <<error>>)
  ELSE IF error.kind = "AbortError"
    THEN NetworkError("Request timeout - the server took too long to respond", <<error>>)
  ELSE NetworkError("An unexpected network error occurred", <<error>>)

\* The catch block of request: the error it throws for the error caught
CatchInRequest(error) ==
  IF error.kind = "NetworkError" THEN error
  ELSE IF error.kind = "TypeError" /\ Includes(error.message, "fetch")
    THEN NetworkError("Network request failed - please check your internet connection", <<error>>)
  ELSE IF error.kind = "AbortError"
    THEN NetworkError("Request timeout - the server took too long to respond", <<error>>)
  ELSE NetworkError("An unexpected network error occurred", <<error>>)

\* What HttpClient.request gives, [err, response], when its fetcher and the
\* reading of the body settle as f. Of a value that is no Response,
\* response.headers throws when the value is undefined or null, and is
\* undefined otherwise, so that .get throws.
HttpClientRequest(f) ==
  LET tried ==
        IF f.fetch # NoError THEN [err |-> f.fetch, response |-> NoResponse]
        ELSE IF f.resolved = Undefined \/ f.resolved = Null
          THEN [err |-> ForeignError("TypeError",
                          "Cannot read properties of " \o ToStr(f.resolved) \o " (reading 'headers')"),
                response |-> NoResponse]
        ELSE IF f.resolved # Obj
          THEN [err |-> ForeignError("TypeError", "Cannot read properties of undefined (reading 'get')"),
                response |-> NoResponse]
        ELSE IF Truthy(f.contentType) /\ Includes(f.contentType.s, "application/json")
          THEN IF f.body.json.err # NoError
                 THEN [err |-> NetworkError("Failed to parse JSON response", <<f.body.json.err>>),
                       response |-> NoResponse]
                 ELSE [err |-> NoError,
                       response |-> Response(f.status, f.statusText, f.body.json.data)]
        ELSE IF f.body.text.err # NoError
          THEN [err |-> f.body.text.err, response |-> NoResponse]
        ELSE [err |-> NoError, response |-> Response(f.status, f.statusText, f.body.text.data)]
  IN IF tried.err = NoError THEN tried
     ELSE [err |-> CatchInRequest(tried.err), response |-> NoResponse]

\* Statuses of responses handed to the parsers directly and by the transport
ParserStatuses == {200, 500}
ErrorStatuses == {200, 302, 400, 401, 403, 404, 500}
CallStatuses == {200, 302, 400, 401, 404}

\* What the transport can do with a request: return a response, return
\* nothing, or throw (a NetworkError as HttpClient.request does, another error
\* of the hierarchy, or an error foreign to it)
TransportErrors ==
  { NetworkError("Network request failed - please check your internet connection",
                 <<ForeignError("TypeError", "fetch failed")>>),
    NetworkError("Request timeout - the server took too long to respond",
                 <<ForeignError("AbortError", "aborted")>>),
    NetworkError("Failed to parse JSON response", <<ForeignError("SyntaxError", "Unexpected token")>>),
    AuthenticationError("denied", Str("401")),
    ValidationError("rejected"),
    PayStationError("provider", Str("500"), NoCause),
    ForeignError("TypeError", "request is not a function"),
    ForeignError("Error", "boom") }

\* The transport's outcomes, as picks: <<"response", status, body pick>>,
\* <<"nothing", value>> or <<"throw", error>>
TransportPicks ==
  ({"response"} \X CallStatuses \X CallBodyPicks)
  \cup ({"nothing"} \X {Undefined, Null})
  \cup ({"throw"} \X TransportErrors)

\* The settled transport call [err, response] a pick stands for
TransportOutcome(pick) ==
  CASE pick[1] = "response" ->
         [err |-> NoError, response |-> Response(pick[2], StatusText(pick[2]), BodyOf(pick[3]))]
    [] pick[1] = "nothing" ->
         [err |-> NoError, response |-> [NoResponse EXCEPT !.v = pick[2]]]
    [] OTHER ->
         [err |-> pick[2], response |-> NoResponse]

\* The responses handed to the success-path parsers directly, as picks of the
\* same form: a response with a body, or no response at all
ParserPicks ==
  ({"response"} \X ParserStatuses \X BodyPicks)
  \cup ({"nothing"} \X {Undefined, Null})

(* --------------------------- state machine ---------------------------- *)

\* How many calls are in flight at once
MaxCalls == 2

VARIABLES
  constructed,     \* a PayStationSDK instance exists
  config,          \* ConfigManager.config of that instance
  pc,              \* position of the facade call: idle, awaiting, settled, done
  operation,       \* the facade method running
  arg,             \* its argument
  request,         \* the request it built
  transportCalls,  \* how many times it called httpClient.request
  settled,         \* how the transport call settled: [err, response]
  raised,          \* the error thrown inside the try block, before the catch block
  outcome,         \* what the caller gets: [err, result]
  unit,            \* the last direct call of a component: [fn, arg, err, result, request]
  again,           \* a parser called once more on unit's response: [fn, between,
                   \* betweenErr, parser, arg, err, result], parser and arg the parser
                   \* instance and the response object after the calls
  inflight,        \* the facade calls in flight at once on one instance, by call number
  requestCalls     \* the calls of request in flight at once on one HttpClient, by call number:
                   \* [pc, contentType, status], pc one of idle, fetching, reading

vars == <<constructed, config, pc, operation, arg, request, transportCalls, settled, raised, outcome, unit,
          again, inflight, requestCalls>>

NoUnit == [fn |-> "none", arg |-> << >>, err |-> NoError, result |-> NoResult, request |-> NoRequest]
NoArg == [v |-> Undefined, o |-> AbsentParams]
NoOutcome == [err |-> NoError, result |-> NoResult]
NoSettled == [err |-> NoError, response |-> NoResponse]

callVars == <<pc, operation, arg, request, transportCalls, settled, raised, outcome>>

NoAgain ==
  [fn |-> "none", between |-> "none", betweenErr |-> NoError, parser |-> << >>, arg |-> << >>,
   err |-> NoError, result |-> NoResult]

\* A facade call that has not started
IdleCall ==
  [pc |-> "idle", operation |-> "none", arg |-> NoArg, request |-> NoRequest,
   settled |-> NoSettled, outcome |-> NoOutcome]

NoCalls == [i \in 1..MaxCalls |-> IdleCall]

\* A call of request that has not been made
IdleRequest == [pc |-> "idle", contentType |-> Null, status |-> 0]

Init ==
  /\ constructed = FALSE
  /\ config = NoConfig
  /\ pc = "idle"
  /\ operation = "none"
  /\ arg = NoArg
  /\ request = NoRequest
  /\ transportCalls = 0
  /\ settled = NoSettled
  /\ raised = NoError
  /\ outcome = NoOutcome
  /\ unit = NoUnit
  /\ again = NoAgain
  /\ inflight = NoCalls
  /\ requestCalls = [i \in 1..MaxCalls |-> IdleRequest]

\* new ConfigManager(config): validateConfig, then the instance keeps a copy
NewConfigManager ==
  /\ ~constructed /\ unit = NoUnit
  /\ \E c \in ConfigInputs :
       unit' = [NoUnit EXCEPT !.fn = "ConfigManager", !.arg = c, !.err = validateConfig(c),
                              !.result = IF validateConfig(c) = NoError THEN c.o ELSE NoResult]
  /\ UNCHANGED <<constructed, config, callVars>>
  /\ UNCHANGED <<again, inflight, requestCalls>>

\* new PayStationSDK(config): ConfigManager, HttpClient, RequestBuilder, ResponseParser
NewPayStationSDK ==
  /\ ~constructed /\ unit = NoUnit
  /\ \E c \in ConfigInputs : \E runtime \in Runtimes :
     \E err \in {IF validateConfig(c) # NoError THEN validateConfig(c) ELSE createSWRFetcher(runtime)} :
          /\ unit' = [NoUnit EXCEPT !.fn = "PayStationSDK", !.arg = c, !.err = err]
          /\ constructed' = (err = NoError)
          /\ config' = IF err = NoError THEN c.o ELSE config
  /\ UNCHANGED callVars
  /\ UNCHANGED <<again, inflight, requestCalls>>

\* A ConfigManager that keeps the caller's object itself, not a copy
StoredConfig_Aliased(held, callerObject) == callerObject

\* this.config = { ...config }: what the instance's config reads as while the
\* caller's object has the fields callerObject; the instance holds its own copy
\* of the three fields
StoredConfig(held, callerObject) == held

\* What the caller may later do to the object it passed to the constructor
ConfigMutations ==
  { <<"merchantId", Str("changed")>>, <<"password", Undefined>>,
    <<"environment", Str(SANDBOX)>>, <<"environment", Str(LIVE)>> }

\* The caller changes a field of the config object it constructed the SDK with;
\* unit then holds that object as it now is
CallerMutatesConfig ==
  /\ constructed /\ unit.fn = "PayStationSDK" /\ unit.arg.o = config
  /\ \E m \in ConfigMutations :
       /\ unit.arg.o[m[1]] # m[2]
       /\ unit' = [unit EXCEPT !.fn = "callerMutatesConfig", !.arg.o[m[1]] = m[2]]
       /\ config' = StoredConfig(config, [unit.arg.o EXCEPT ![m[1]] = m[2]])
  /\ UNCHANGED <<constructed, callVars, again, inflight, requestCalls>>

\* A direct call of one of the two success-path parsers
ParseSuccessCall ==
  /\ ~constructed /\ unit = NoUnit
  /\ \E fn \in {"parseInitiatePaymentResponse", "parseTransactionStatusResponse"} :
     \E pick \in ParserPicks :
     \E r \in {TransportOutcome(pick).response} :
     \E out \in {IF fn = "parseInitiatePaymentResponse"
                   THEN parseInitiatePaymentResponse(r) ELSE parseTransactionStatusResponse(r)} :
       unit' = [NoUnit EXCEPT !.fn = fn, !.arg = r, !.err = out.err, !.result = out.result]
  /\ UNCHANGED <<constructed, config, callVars>>
  /\ UNCHANGED <<again, inflight, requestCalls>>

\* A direct call of parseErrorResponse, with a response or with nothing
ParseErrorCall ==
  /\ ~constructed /\ unit = NoUnit
  /\ \E r \in { Response(k, text, BodyOf(pick)) :
                  k \in ErrorStatuses, text \in {"", "Server Error"}, pick \in CallBodyPicks }
              \cup { [NoResponse EXCEPT !.v = x] : x \in {Undefined, Null} } :
       unit' = [NoUnit EXCEPT !.fn = "parseErrorResponse", !.arg = r, !.err = parseErrorResponse(r)]
  /\ UNCHANGED <<constructed, config, callVars>>
  /\ UNCHANGED <<again, inflight, requestCalls>>

Parsers ==
  {"parseInitiatePaymentResponse", "parseTransactionStatusResponse", "parseErrorResponse"}

\* The responses whose second parse the model follows: the reference response,
\* its one-field variants, the non-object bodies and the absent response
RepeatedResponses ==
  { TransportOutcome(p).response :
      p \in ({"response"} \X ParserStatuses \X CallBodyPicks) \cup ({"nothing"} \X {Undefined, Null}) }

\* A ResponseParser instance, as its fields: the class declares none
ResponseParser == << >>

\* A parser that keeps the response it parsed last in a field of the instance
AfterParse_KeepsLast(fn, parser, response) == [parser |-> <<response>>, response |-> response]

\* The parser instance and the response object as a call of the parser method
\* fn on them leaves them: the methods, and the private methods they call,
\* assign to no field of this and to no property of the response or its data
AfterParse(fn, parser, response) == [parser |-> parser, response |-> response]

\* A call of the parser method named fn: [err, result]
CallParser(fn, response) ==
  IF fn = "parseInitiatePaymentResponse" THEN parseInitiatePaymentResponse(response)
  ELSE IF fn = "parseTransactionStatusResponse" THEN parseTransactionStatusResponse(response)
  ELSE [err |-> parseErrorResponse(response), result |-> NoResult]

\* The calls a caller makes between two parses of one response: none, a parser
\* method on the same response object or on another response (one that parses
\* and one that is refused), or a method of a RequestBuilder with an argument
\* it accepts or refuses
BetweenCalls ==
  {[on |-> "none", fn |-> "none", arg |-> NoArg]}
  \cup {[on |-> "same", fn |-> fn, arg |-> NoArg] : fn \in Parsers}
  \cup {[on |-> "other", fn |-> fn, arg |-> r] :
          fn \in Parsers, r \in {Response(200, "OK", BaseBody), Response(500, "", TextBody("<html>"))}}
  \cup {[on |-> "builder", fn |-> "buildInitiatePaymentRequest", arg |-> a] :
          a \in {BaseParams, [BaseParams EXCEPT !.o["customerEmail"] = Str("a@b")]}}
  \cup {[on |-> "builder", fn |-> fn, arg |-> a] :
          fn \in {"buildTransactionStatusRequest", "buildTransactionStatusByIdRequest"},
          a \in {[v |-> Str("INV-1"), o |-> AbsentParams], [v |-> Str("  "), o |-> AbsentParams]}}

\* The call made in between, with the caller holding the parser instance and
\* the response: the error it raises, and the two objects after it. A parser
\* method gets the parser as this and the response it is called with; a builder
\* method, of a RequestBuilder with the configuration cfg, gets neither object.
Between(call, parser, response) ==
  LET cfg == [merchantId |-> Str("m1"), password |-> Str("pw"), environment |-> Str(SANDBOX)] IN
  CASE call.on = "none" -> [err |-> NoError, parser |-> parser, response |-> response]
    [] call.on = "same" ->
         [err |-> CallParser(call.fn, response).err,
          parser |-> AfterParse(call.fn, parser, response).parser,
          response |-> AfterParse(call.fn, parser, response).response]
    [] call.on = "other" ->
         [err |-> CallParser(call.fn, call.arg).err,
          parser |-> AfterParse(call.fn, parser, call.arg).parser,
          response |-> response]
    [] OTHER ->
         [err |-> (CASE call.fn = "buildInitiatePaymentRequest" ->
                          buildInitiatePaymentRequest(cfg, call.arg)
                     [] call.fn = "buildTransactionStatusRequest" ->
                          buildTransactionStatusRequest(cfg, call.arg.v)
                     [] OTHER -> buildTransactionStatusByIdRequest(cfg, call.arg.v)).err,
          parser |-> parser, response |-> response]

\* The caller parses the response of the last direct parser call once more
\* with the same parser, after the call in between: the second parse runs on
\* the two objects as the first parse and the call in between left them
ParseAgain ==
  /\ unit.fn \in Parsers /\ again = NoAgain
  /\ (unit.fn # "parseErrorResponse" => unit.arg \in RepeatedResponses)
  /\ \E call \in BetweenCalls :
     \E first \in {AfterParse(unit.fn, ResponseParser, unit.arg)} :
     \E mid \in {Between(call, first.parser, first.response)} :
     \E out \in {CallParser(unit.fn, mid.response)} :
     \E last \in {AfterParse(unit.fn, mid.parser, mid.response)} :
       again' = [fn |-> unit.fn, between |-> call, betweenErr |-> mid.err,
                 parser |-> last.parser, arg |-> last.response,
                 err |-> out.err, result |-> out.result]
  /\ UNCHANGED <<constructed, config, callVars, unit, inflight, requestCalls>>

\* A direct call of buildInitiatePaymentRequest on the instance's builder
BuildInitiateCall ==
  /\ constructed /\ pc = "idle" /\ unit = NoUnit
  /\ \E pick \in ParamPicks :
     \E p \in {ParamsOf(pick)} :
     \E out \in {buildInitiatePaymentRequest(config, p)} :
       unit' = [NoUnit EXCEPT !.fn = "buildInitiatePaymentRequest", !.arg = p,
                              !.err = out.err, !.request = out.request]
  /\ UNCHANGED <<constructed, config, callVars>>
  /\ UNCHANGED <<again, inflight, requestCalls>>

\* A direct call of one of the two status-lookup builders
BuildStatusCall ==
  /\ constructed /\ pc = "idle" /\ unit = NoUnit
  /\ \E fn \in {"buildTransactionStatusRequest", "buildTransactionStatusByIdRequest"} :
     \E id \in Identifiers :
     \E out \in {IF fn = "buildTransactionStatusRequest"
                   THEN buildTransactionStatusRequest(config, id.v)
                   ELSE buildTransactionStatusByIdRequest(config, id.v)} :
       unit' = [NoUnit EXCEPT !.fn = fn, !.arg = id, !.err = out.err, !.request = out.request]
  /\ UNCHANGED <<constructed, config, callVars>>
  /\ UNCHANGED <<again, inflight, requestCalls>>

\* The direct call's value is dropped by its caller
Discard ==
  /\ unit # NoUnit
  /\ unit' = NoUnit
  /\ UNCHANGED <<constructed, config, callVars>>
  /\ again' = NoAgain
  /\ UNCHANGED <<inflight, requestCalls>>

\* A facade method is called: it builds the request and, when that succeeds,
\* calls httpClient.request and suspends at the await; when the builder throws,
\* the catch block runs and the call is over.
StartCall ==
  /\ constructed /\ pc = "idle" /\ unit = NoUnit
  /\ \E op \in Operations :
     \E a \in (IF op = "initiatePayment" THEN { ParamsOf(pick) : pick \in CallParamPicks } ELSE Identifiers) :
     \E built \in {BuildRequest(op, config, a)} :
       /\ operation' = op
       /\ arg' = a
       /\ request' = built.request
       /\ raised' = built.err
       /\ IF built.err # NoError
            THEN /\ pc' = "done"
                 /\ transportCalls' = 0
                 /\ outcome' = [err |-> Rethrow(op, built.err), result |-> NoResult]
            ELSE /\ pc' = "awaiting"
                 /\ transportCalls' = 1
                 /\ outcome' = NoOutcome
  /\ UNCHANGED <<constructed, config, settled, unit>>
  /\ UNCHANGED <<again, inflight, requestCalls>>

\* The transport call settles: it resolves with a response or rejects
TransportSettles ==
  /\ pc = "awaiting"
  /\ \E pick \in TransportPicks : settled' = TransportOutcome(pick)
  /\ pc' = "settled"
  /\ UNCHANGED <<constructed, config, operation, arg, request, transportCalls, raised, outcome, unit>>
  /\ UNCHANGED <<again, inflight, requestCalls>>

\* A facade method that calls the transport again when the call failed with a
\* NetworkError
Resume_Retry ==
  /\ pc = "settled"
  /\ \E r \in {AfterTransport(operation, settled)} :
       IF r.err.kind = "NetworkError"
         THEN /\ pc' = "awaiting"
              /\ transportCalls' = transportCalls + 1
              /\ UNCHANGED <<raised, outcome>>
         ELSE /\ pc' = "done"
              /\ raised' = r.err
              /\ outcome' = IF r.err # NoError
                              THEN [err |-> Rethrow(operation, r.err), result |-> NoResult]
                              ELSE r
              /\ UNCHANGED transportCalls
  /\ UNCHANGED <<constructed, config, operation, arg, request, settled, unit>>
  /\ UNCHANGED <<again, inflight, requestCalls>>

\* The facade method resumes after the await: status check, parse, catch block
Resume ==
  /\ pc = "settled"
  /\ \E r \in {AfterTransport(operation, settled)} :
       /\ raised' = r.err
       /\ outcome' = IF r.err # NoError
                       THEN [err |-> Rethrow(operation, r.err), result |-> NoResult]
                       ELSE r
  /\ pc' = "done"
  /\ UNCHANGED <<constructed, config, operation, arg, request, transportCalls, settled, unit>>
  /\ UNCHANGED <<again, inflight, requestCalls>>

\* The caller has the outcome; the call's values are discarded
Return ==
  /\ pc = "done"
  /\ pc' = "idle"
  /\ operation' = "none"
  /\ arg' = NoArg
  /\ request' = NoRequest
  /\ transportCalls' = 0
  /\ settled' = NoSettled
  /\ raised' = NoError
  /\ outcome' = NoOutcome
  /\ UNCHANGED <<constructed, config, unit>>
  /\ UNCHANGED <<again, inflight, requestCalls>>

Next ==
  \/ NewConfigManager
  \/ NewPayStationSDK
  \/ CallerMutatesConfig
  \/ ParseSuccessCall
  \/ ParseErrorCall
  \/ ParseAgain
  \/ BuildInitiateCall
  \/ BuildStatusCall
  \/ Discard
  \/ StartCall
  \/ TransportSettles
  \/ Resume
  \/ Return

Spec == Init /\ [][Next]_vars

TypeOK ==
  /\ constructed \in BOOLEAN
  /\ pc \in {"idle", "awaiting", "settled", "done"}
  /\ transportCalls \in 0..1

(* ---------------------- calls in flight at once ----------------------- *)

\* A facade method run from call to return with nothing else going on: what
\* the caller gets, [err, result], for the settled transport call [err, response]
RunAlone(op, cfg, a, transport) ==
  LET built == BuildRequest(op, cfg, a)
      r == AfterTransport(op, transport)
  IN IF built.err # NoError THEN [err |-> Rethrow(op, built.err), result |-> NoResult]
     ELSE IF r.err # NoError THEN [err |-> Rethrow(op, r.err), result |-> NoResult]
     ELSE r

\* The arguments of the calls in flight: a valid and an invalid one per method
ConcurrentArgs(op) ==
  IF op = "initiatePayment"
    THEN {BaseParams, [BaseParams EXCEPT !.o["customerEmail"] = Str("a@b")]}
    ELSE {[v |-> Str("INV-1"), o |-> AbsentParams], [v |-> Str("  "), o |-> AbsentParams]}

\* How their transport calls settle: a success body, a failed body, an HTTP
\* error with a text body, a NetworkError
ConcurrentOutcomes ==
  { [err |-> NoError, response |-> Response(200, "OK", BaseBody)],
    [err |-> NoError, response |-> Response(200, "OK", [BaseBody EXCEPT !.o["status"] = Str("failed")])],
    [err |-> NoError,
     response |-> Response(401, "Unauthorized", [v |-> Str("<html>"), o |-> AbsentBody, d |-> AbsentTxn])],
    [err |-> NetworkError("Network request failed - please check your internet connection",
                          <<ForeignError("TypeError", "fetch failed")>>),
     response |-> NoResponse] }

\* The instances the calls run on: one per environment
ConcurrentConfigs ==
  { [merchantId |-> Str("m1"), password |-> Str("pw"), environment |-> Str(e)] : e \in Environments }

InitConcurrent ==
  /\ constructed = TRUE
  /\ config \in ConcurrentConfigs
  /\ pc = "idle"
  /\ operation = "none"
  /\ arg = NoArg
  /\ request = NoRequest
  /\ transportCalls = 0
  /\ settled = NoSettled
  /\ raised = NoError
  /\ outcome = NoOutcome
  /\ unit = NoUnit
  /\ again = NoAgain
  /\ inflight = NoCalls
  /\ requestCalls = [i \in 1..MaxCalls |-> IdleRequest]

sequentialVars == <<constructed, config, callVars, unit, again, requestCalls>>

\* Call i is made: the method builds its request and suspends at the await, or
\* the builder throws and the call is over
StartConcurrent(i) ==
  /\ inflight[i].pc = "idle"
  /\ \E op \in Operations : \E a \in ConcurrentArgs(op) :
     \E built \in {BuildRequest(op, config, a)} :
       inflight' = [inflight EXCEPT ![i] =
         [pc |-> IF built.err # NoError THEN "done" ELSE "awaiting",
          operation |-> op, arg |-> a, request |-> built.request, settled |-> NoSettled,
          outcome |-> IF built.err # NoError
                        THEN [err |-> Rethrow(op, built.err), result |-> NoResult]
                        ELSE NoOutcome]]
  /\ UNCHANGED sequentialVars

\* The transport call of call i settles
SettleConcurrent(i) ==
  /\ inflight[i].pc = "awaiting"
  /\ \E o \in ConcurrentOutcomes :
       inflight' = [inflight EXCEPT ![i].pc = "settled", ![i].settled = o]
  /\ UNCHANGED sequentialVars

\* A method whose awaited response is kept in a field of the instance: every
\* call reads the response of the lowest-numbered settled call
AwaitedBy_Shared(i) ==
  inflight[CHOOSE j \in 1..MaxCalls :
             /\ inflight[j].pc = "settled"
             /\ \A k \in 1..MaxCalls : inflight[k].pc = "settled" => j <= k].settled

\* const response = await this.httpClient.request(request): the settled
\* transport call that call i resumes with, a local of that call
AwaitedBy(i) == inflight[i].settled

\* Call i resumes after the await: status check, parse, catch block
ResumeConcurrent(i) ==
  /\ inflight[i].pc = "settled"
  /\ \E r \in {AfterTransport(inflight[i].operation, AwaitedBy(i))} :
       inflight' = [inflight EXCEPT
         ![i].pc = "done",
         ![i].outcome = IF r.err # NoError
                          THEN [err |-> Rethrow(inflight[i].operation, r.err), result |-> NoResult]
                          ELSE r]
  /\ UNCHANGED sequentialVars

\* The caller of call i has its outcome
ReturnConcurrent(i) ==
  /\ inflight[i].pc = "done"
  /\ inflight' = [inflight EXCEPT ![i] = IdleCall]
  /\ UNCHANGED sequentialVars

NextConcurrent ==
  \E i \in 1..MaxCalls :
    \/ StartConcurrent(i)
    \/ SettleConcurrent(i)
    \/ ResumeConcurrent(i)
    \/ ReturnConcurrent(i)

SpecConcurrent == InitConcurrent /\ [][NextConcurrent]_vars

(* ------------------ calls of request in flight at once ----------------- *)

\* request is called on an HttpClient as call i: it builds requestInit, calls
\* the fetcher and suspends at the await of the fetcher's promise
HttpRequestCall(i) ==
  /\ requestCalls[i].pc = "idle"
  /\ requestCalls' = [requestCalls EXCEPT ![i].pc = "fetching"]
  /\ UNCHANGED <<constructed, config, callVars, unit, again, inflight>>

\* The fetcher's promise of call i settles and the call resumes. When the
\* promise rejected, or resolved with a value that is no Response, the catch
\* block runs and the call is over; otherwise the call reads the content type,
\* calls response.json() or response.text() and suspends at that await.
FetchSettles(i) ==
  /\ requestCalls[i].pc = "fetching"
  /\ \/ \E f \in {g \in FetchOutcomes : g.fetch # NoError \/ g.resolved # Obj} :
        \E r \in {HttpClientRequest(f)} :
          /\ unit' = [NoUnit EXCEPT !.fn = "request", !.arg = f, !.err = r.err]
          /\ requestCalls' = [requestCalls EXCEPT ![i] = IdleRequest]
     \/ \E c \in ContentTypes, k \in FetchStatuses :
          /\ requestCalls' = [requestCalls EXCEPT
                                ![i] = [pc |-> "reading", contentType |-> c, status |-> k]]
          /\ UNCHANGED unit
  /\ UNCHANGED <<constructed, config, callVars, again, inflight>>

\* The promise of response.json() or response.text() of call i settles and the
\* call resumes: it returns {status, statusText, data}, or the catch blocks run
BodySettles(i) ==
  /\ requestCalls[i].pc = "reading"
  /\ \E b \in FetchedBodies :
     \E f \in {[fetch |-> NoError, resolved |-> Obj, contentType |-> requestCalls[i].contentType,
                status |-> requestCalls[i].status, statusText |-> StatusText(requestCalls[i].status),
                body |-> b]} :
     \E r \in {HttpClientRequest(f)} :
       unit' = [NoUnit EXCEPT !.fn = "request", !.arg = f, !.err = r.err,
                              !.result = IF r.err = NoError THEN r.response ELSE NoResult]
  /\ requestCalls' = [requestCalls EXCEPT ![i] = IdleRequest]
  /\ UNCHANGED <<constructed, config, callVars, again, inflight>>

NextRequest ==
  \E i \in 1..MaxCalls :
    \/ HttpRequestCall(i)
    \/ FetchSettles(i)
    \/ BodySettles(i)

\* An HttpClient of its own, no instance of the facade constructed
SpecRequest == Init /\ [][NextRequest]_vars

(* ------------------------------ claims -------------------------------- *)

SuccessParsers == {"parseInitiatePaymentResponse", "parseTransactionStatusResponse"}

\* The four error kinds of the SDK's hierarchy
HierarchyKinds == {"PayStationError", "ValidationError", "AuthenticationError", "NetworkError"}

\* The values JavaScript treats as false
FalsyValues == {Undefined, Null, NaN, Bool(FALSE), Num(0), Str("")}

\* The decimal text of each HTTP status the enumerated responses carry
StatusDigits ==
  (200 :> "200") @@ (302 :> "302") @@ (400 :> "400") @@ (401 :> "401")
  @@ (403 :> "403") @@ (404 :> "404") @@ (500 :> "500")

\* C1: for both success-path parsers, a body object in which statusCode, status
\* and message are all present and status is "failed" makes the parser raise the
\* generic PayStationError carrying the body's message and statusCode, with no
\* result, whatever the HTTP status and whatever the values of statusCode and
\* message.
C1_FailedBodyRaisesPayStationError ==
  ( /\ unit.fn \in SuccessParsers
    /\ unit.arg.data.v = Obj
    /\ unit.arg.data.o["statusCode"] # Undefined
    /\ unit.arg.data.o["message"] # Undefined
    /\ unit.arg.data.o["status"] = Str("failed") )
  => /\ unit.err.kind = "PayStationError"
     /\ unit.err.message = ToStr(unit.arg.data.o["message"])
     /\ unit.err.statusCode = unit.arg.data.o["statusCode"]
     /\ unit.result = NoResult

\* C2: parseErrorResponse never returns: for HTTP status 401 or 403 it raises
\* AuthenticationError with the status as a string as its code, for 400 it
\* raises ValidationError, for every other status the generic PayStationError
\* with the status as a string as its code.  It never returns either when it
\* is handed no response, which has no status.
C2_ErrorResponseKinds ==
  unit.fn = "parseErrorResponse" =>
    LET k == unit.arg.status.n IN
    /\ unit.err # NoError
    /\ unit.result = NoResult
    /\ unit.arg.v = Obj =>
         /\ unit.err.kind = (IF k \in {401, 403} THEN "AuthenticationError"
                             ELSE IF k = 400 THEN "ValidationError"
                             ELSE "PayStationError")
         /\ (k # 400 => unit.err.statusCode = Str(StatusDigits[k]))

C2_Witness ==
  /\ unit.fn = "parseErrorResponse"
  /\ unit.arg.status = Num(403)
  /\ unit.err.kind = "AuthenticationError"
  /\ unit.err.statusCode = Str("403")

\* The default message of parseErrorResponse for a status and status text
DefaultErrorMessage(k, text) ==
  IF k \in {401, 403} THEN "Authentication failed"
  ELSE IF k = 400 THEN "Invalid request parameters"
  ELSE "HTTP " \o StatusDigits[k] \o ": " \o text

\* C3 as stated: the message of the error parseErrorResponse raises is the
\* stringified message field whenever the body is an object that has a message
\* field, and the default for the status in every other case.  (Of a response
\* that is an object: without one there is neither body nor status.)
C3_MessageWheneverPresent ==
  unit.fn = "parseErrorResponse" /\ unit.arg.v = Obj =>
    unit.err.message =
      (IF /\ unit.arg.data.v = Obj
          /\ unit.arg.data.o["message"] \notin {Undefined, NoPrimitive}
         THEN ToStr(unit.arg.data.o["message"])
         ELSE DefaultErrorMessage(unit.arg.status.n, unit.arg.statusText))

\* C3 amended: the message of the error parseErrorResponse raises is the
\* stringified message field whenever the body is an object whose message field
\* is truthy (not undefined, null, false, 0, NaN or "") and has a string form
\* that is not empty, and the default for the status in every other case (a
\* message without a string form, or with an empty one like [], included).
\* (Of a response that is an object, as above.)
C3_MessageWheneverTruthy ==
  unit.fn = "parseErrorResponse" /\ unit.arg.v = Obj =>
    unit.err.message =
      (IF /\ unit.arg.data.v = Obj
          /\ unit.arg.data.o["message"] \notin FalsyValues
          /\ unit.arg.data.o["message"] # NoPrimitive
          /\ ToStr(unit.arg.data.o["message"]) # ""
         THEN ToStr(unit.arg.data.o["message"])
         ELSE DefaultErrorMessage(unit.arg.status.n, unit.arg.statusText))

C3_Witness ==
  /\ unit.fn = "parseErrorResponse"
  /\ unit.arg.status = Num(401)
  /\ unit.arg.data.o["message"] = Num(7)
  /\ unit.err.message = "7"

\* A string made of white space only (the empty string included)
IsBlank(x) == \A i \in 1..Len(x) : CharAt(x, i) \in WhiteSpace

RequiredStringFields == {"invoiceNumber", "customerName", "customerPhone", "customerEmail", "callbackUrl"}

\* The validation rule (1..7) an error message of the builder belongs to
RuleOfMessage(m) ==
  CASE m = "Payment parameters are required" -> 1
    [] \E f \in RequiredStringFields :
         m \in {f \o " is required and must be a string", f \o " cannot be empty or whitespace only"} -> 2
    [] m \in {"paymentAmount must be a number", "paymentAmount must be greater than 0"} -> 3
    [] m \in {"payWithCharge must be a number", "payWithCharge cannot be negative"} -> 4
    [] m \in {"emi must be a number", "emi cannot be negative"} -> 5
    [] m = "customerEmail must be a valid email address" -> 6
    [] m = "callbackUrl must be a valid URL" -> 7
    [] OTHER -> 0

\* A number above 0, and one that is 0 or above (of a number that is not an
\* integer, n is the sign; of an infinity too)
IsPositive(v) == v.t \in {"number", "infinity"} /\ v.n > 0
IsNonNegative(v) == v.t \in {"number", "infinity"} /\ v.n >= 0

\* The rules, as the specification states them, that params p violates
ViolatedRules(p) ==
  { r \in 1..7 :
      CASE r = 1 -> p.v # Obj
        [] r = 2 -> \E f \in RequiredStringFields : p.o[f].t # "string" \/ IsBlank(p.o[f].s)
        [] r = 3 -> ~IsPositive(p.o["paymentAmount"])
        [] r = 4 -> p.o["payWithCharge"] # Undefined /\ ~IsNonNegative(p.o["payWithCharge"])
        [] r = 5 -> p.o["emi"] # Undefined /\ ~IsNonNegative(p.o["emi"])
        [] r = 6 -> ~isValidEmail(p.o["customerEmail"])
        [] OTHER -> ~isValidUrl(p.o["callbackUrl"]) }

\* C4: buildInitiatePaymentRequest applies its seven validation rules in the
\* fixed order; for every input that violates several rules the ValidationError
\* raised is the one of the earliest violated rule, and no request is produced.
C4_EarliestViolatedRuleWins ==
  ( /\ unit.fn = "buildInitiatePaymentRequest"
    /\ unit.arg.v \in {Obj, Undefined, Null}
    /\ Cardinality(ViolatedRules(unit.arg)) >= 2 )
  => /\ unit.err.kind = "ValidationError"
     /\ \A r \in ViolatedRules(unit.arg) : RuleOfMessage(unit.err.message) <= r
     /\ RuleOfMessage(unit.err.message) \in ViolatedRules(unit.arg)
     /\ unit.request = NoRequest

RequiredKeys ==
  {"merchant_id", "password", "invoice_number", "payment_amount",
   "customer_name", "customer_phone", "customer_email", "callback_url"}

OptionalFields ==
  {"currency", "payWithCharge", "reference", "customerAddress", "checkoutItems",
   "optA", "optB", "optC", "emi"}

\* The snake_case body key of each optional field
OptionalKey ==
  [currency |-> "currency", payWithCharge |-> "pay_with_charge", reference |-> "reference",
   customerAddress |-> "customer_address", checkoutItems |-> "checkout_items",
   optA |-> "opt_a", optB |-> "opt_b", optC |-> "opt_c", emi |-> "emi"]

\* The keys of a form body
BodyKeys(body) == { body[i][1] : i \in 1..Len(body) }

\* C5: for every valid input the key set of the built body is the eight
\* required keys united with the key of each optional field the caller supplied:
\* every supplied optional field appears, whatever its value (an empty string or
\* 0 included), and every optional field not supplied is absent.
C5_BodyKeySet ==
  (unit.fn = "buildInitiatePaymentRequest" /\ unit.err = NoError)
  => BodyKeys(unit.request.body) =
       RequiredKeys \cup { OptionalKey[f] : f \in { g \in OptionalFields : unit.arg.o[g] # Undefined } }

\* C6: with all other fields valid, buildInitiatePaymentRequest succeeds if and
\* only if paymentAmount is of numeric type and strictly greater than 0; every
\* other paymentAmount (a non-number, 0, a negative value, NaN) makes it fail
\* with ValidationError.
C6_AmountAcceptedIffPositive ==
  ( /\ unit.fn = "buildInitiatePaymentRequest"
    /\ unit.arg = [BaseParams EXCEPT !.o["paymentAmount"] = unit.arg.o["paymentAmount"]] )
  => IF IsPositive(unit.arg.o["paymentAmount"])
       THEN unit.err = NoError /\ unit.request # NoRequest
       ELSE unit.err.kind = "ValidationError" /\ unit.request = NoRequest

\* The fixed description each facade method gives an unexpected failure
FixedDescription ==
  [initiatePayment |-> "An unexpected error occurred during payment initiation",
   getTransactionStatus |-> "An unexpected error occurred during transaction status check",
   getTransactionStatusById |-> "An unexpected error occurred during transaction status check by ID"]

\* C7: in each facade method an error of a known kind raised by the request
\* builder, the transport or the response parser reaches the caller unchanged;
\* any other failure reaches the caller as a generic PayStationError with the
\* method's fixed description, no status code and the original failure as its
\* cause; once a step has failed the method returns no result.
C7_ErrorPropagation ==
  pc = "done" =>
    /\ (settled.err # NoError => raised = settled.err)
    /\ (raised.kind \in HierarchyKinds => outcome.err = raised)
    /\ ((raised # NoError /\ raised.kind \notin HierarchyKinds) =>
          outcome.err = [kind |-> "PayStationError", message |-> FixedDescription[operation],
                         statusCode |-> Undefined, originalError |-> <<raised>>])
    /\ (raised # NoError => outcome.result = NoResult)
    /\ (raised = NoError => outcome.err = NoError /\ outcome.result # NoResult)

C7_Witness ==
  /\ pc = "done"
  /\ settled.err = NoError
  /\ raised.kind = "AuthenticationError"
  /\ outcome.err = raised
  /\ outcome.result = NoResult

\* C8: every facade call runs build, then the transport call, then parse, in
\* that order; it issues exactly one transport call when validation passes and
\* none when validation fails, and no outcome of the transport call or of
\* parsing causes a second transport call.
C8_OneTransportCallInOrder ==
  [][ /\ transportCalls' <= 1
      /\ (pc' = "awaiting" =>
            pc = "idle" /\ raised' = NoError /\ request' # NoRequest /\ transportCalls' = 1)
      /\ (pc' = "settled" => pc = "awaiting" /\ transportCalls' = transportCalls)
      /\ (pc' = "done" =>
            \/ pc = "settled" /\ transportCalls' = 1
            \/ pc = "idle" /\ raised' # NoError /\ request' = NoRequest /\ transportCalls' = 0) ]_vars

C8_Witness ==
  /\ pc = "done"
  /\ settled.err.kind = "NetworkError"
  /\ outcome.err.kind = "NetworkError"
  /\ transportCalls = 1

\* C9: every error raised by the PayStationSDK constructor or by a facade
\* method is a PayStationError or one of its subtypes ValidationError,
\* AuthenticationError, NetworkError.
C9_OnlyHierarchyErrorsEscape ==
  /\ (unit.fn = "PayStationSDK" /\ unit.err # NoError) => unit.err.kind \in HierarchyKinds
  /\ (pc = "done" /\ outcome.err # NoError) => outcome.err.kind \in HierarchyKinds

\* A credential that is missing, not a string, or empty or white space only
BadCredential(x) == x.t # "string" \/ IsBlank(x.s)

\* C10: constructing a ConfigManager, and so a PayStationSDK, fails with a
\* ValidationError and yields no instance whenever the config is absent or
\* merchantId or password is missing, not a string, or blank; with non-blank
\* string credentials and a recognized environment, constructing a
\* ConfigManager succeeds.
C10_CredentialsValidated ==
  unit.fn \in {"ConfigManager", "PayStationSDK"} =>
    LET c == unit.arg
        bad == c.v # Obj \/ BadCredential(c.o["merchantId"]) \/ BadCredential(c.o["password"])
    IN /\ bad => /\ unit.err.kind = "ValidationError"
                 /\ unit.result = NoResult
                 /\ (unit.fn = "PayStationSDK" => ~constructed)
       /\ (~bad /\ c.o["environment"] \in {Str("sandbox"), Str("live")}) =>
            IF unit.fn = "ConfigManager"
              THEN unit.err = NoError /\ unit.result = c.o
              ELSE /\ unit.err.kind \in {"none", "NetworkError"}
                   /\ constructed = (unit.err = NoError)
                   /\ (constructed => config = c.o)

C10_Witness ==
  /\ unit.fn = "ConfigManager"
  /\ unit.arg.o["merchantId"] = Str("m1")
  /\ unit.arg.o["password"] = Str(" \t")
  /\ unit.err.kind = "ValidationError"
  /\ unit.result = NoResult

Constructors == {"ConfigManager", "PayStationSDK"}

\* C11: constructing a ConfigManager (and so a PayStationSDK) fails with a
\* ValidationError, and yields no instance, whenever environment is absent or is
\* any value other than "sandbox" and "live"; no environment is assumed instead.
C11_EnvironmentRequired ==
  (unit.fn \in Constructors /\ unit.arg.o["environment"] \notin {Str("sandbox"), Str("live")})
  => /\ unit.err.kind = "ValidationError"
     /\ unit.result = NoResult
     /\ (unit.fn = "PayStationSDK" => ~constructed)

\* C12: when the configuration gives valid credentials and no environment,
\* construction does not fail for the missing environment and the instance uses
\* the sandbox environment and its base URL.
C12_SandboxIsDefault ==
  ( /\ unit.fn \in Constructors
    /\ unit.arg.v = Obj
    /\ ~BadCredential(unit.arg.o["merchantId"])
    /\ ~BadCredential(unit.arg.o["password"])
    /\ unit.arg.o["environment"] = Undefined )
  => /\ unit.err.kind # "ValidationError"
     /\ (unit.fn = "ConfigManager" =>
           getBaseUrl(unit.result) = "https://sandbox.paystation.com.bd/api")
     /\ (constructed => getBaseUrl(config) = "https://sandbox.paystation.com.bd/api")

Builders ==
  {"buildInitiatePaymentRequest", "buildTransactionStatusRequest", "buildTransactionStatusByIdRequest"}

\* The endpoint path of each builder and of the facade method that uses it
EndpointOf ==
  [buildInitiatePaymentRequest |-> "/initiate-payment",
   buildTransactionStatusRequest |-> "/transaction-status",
   buildTransactionStatusByIdRequest |-> "/v2/transaction-status",
   initiatePayment |-> "/initiate-payment",
   getTransactionStatus |-> "/transaction-status",
   getTransactionStatusById |-> "/v2/transaction-status"]

\* The base URL of each environment, and the host of the other environment
ExpectedBase ==
  [sandbox |-> "https://sandbox.paystation.com.bd/api", live |-> "https://api.paystation.com.bd"]
OtherHost ==
  [sandbox |-> "https://api.paystation.com.bd", live |-> "https://sandbox.paystation.com.bd"]

StartsWith(x, prefix) == Len(x) >= Len(prefix) /\ SubSeq(x, 1, Len(prefix)) = prefix

\* req is the request the builder or facade method called name must produce
\* for the instance's environment, apart from its body
RequestLineOk(req, name) ==
  LET env == config["environment"].s IN
  /\ req.method = "POST"
  /\ DOMAIN req.headers = {"Content-Type", "Accept"}
  /\ req.headers["Content-Type"] = "application/x-www-form-urlencoded"
  /\ req.headers["Accept"] = "application/json"
  /\ req.url = ExpectedBase[env] \o EndpointOf[name]
  /\ ~StartsWith(req.url, OtherHost[env])

\* C13: for each environment and each of the three operations the built request
\* has method POST, the two fixed headers, and the URL made of the environment's
\* base URL and the operation's path; it is never on the other environment's host.
C13_MethodHeadersUrl ==
  /\ (unit.fn \in Builders /\ unit.err = NoError) => RequestLineOk(unit.request, unit.fn)
  /\ (pc \in {"awaiting", "settled", "done"} /\ request # NoRequest) => RequestLineOk(request, operation)

C13_Witness ==
  /\ unit.fn = "buildTransactionStatusByIdRequest"
  /\ config["environment"] = Str("live")
  /\ unit.request.method = "POST"
  /\ unit.request.url = "https://api.paystation.com.bd/v2/transaction-status"

\* The values a form body holds under a key
BodyValues(body, key) == { body[i][2] : i \in { j \in 1..Len(body) : body[j][1] = key } }

\* The key/value pairs of a form body
BodyPairs(body) == { body[i] : i \in 1..Len(body) }

\* body is what a request built by name for identifier id must carry
RequestBodyOk(body, name, id) ==
  /\ BodyValues(body, "merchant_id") = {config["merchantId"].s}
  /\ BodyValues(body, "password") = {config["password"].s}
  /\ (name \in {"buildTransactionStatusRequest", "getTransactionStatus"} =>
        /\ Len(body) = 3
        /\ BodyPairs(body) = { <<"merchant_id", config["merchantId"].s>>,
                               <<"password", config["password"].s>>,
                               <<"invoice_number", id.s>> })
  /\ (name \in {"buildTransactionStatusByIdRequest", "getTransactionStatusById"} =>
        /\ Len(body) = 3
        /\ BodyPairs(body) = { <<"merchant_id", config["merchantId"].s>>,
                               <<"password", config["password"].s>>,
                               <<"trx_id", id.s>> })

\* C14: every request body built by any of the three operations holds
\* merchant_id and password equal to the configured credentials; the body of a
\* status-by-invoice request is exactly merchant_id, password, invoice_number
\* and that of a status-by-id request exactly merchant_id, password, trx_id,
\* the identifier being the caller's value unchanged.
C14_CredentialsAndIdentifier ==
  /\ (unit.fn \in Builders /\ unit.err = NoError) =>
       RequestBodyOk(unit.request.body, unit.fn, unit.arg.v)
  /\ (pc \in {"awaiting", "settled", "done"} /\ request # NoRequest) =>
       RequestBodyOk(request.body, operation, arg.v)

C14_Witness ==
  /\ unit.fn = "buildTransactionStatusByIdRequest"
  /\ unit.arg.v = Str(" TXN 1 ")
  /\ unit.request.body = << <<"merchant_id", "m1">>, <<"password", "pw">>, <<"trx_id", " TXN 1 ">> >>

\* An identifier that is not a string, or is empty or white space only
BadIdentifier(x) == x.t # "string" \/ IsBlank(x.s)

StatusLookups == {"getTransactionStatus", "getTransactionStatusById"}

\* C15: getTransactionStatus and getTransactionStatusById raise ValidationError,
\* without calling the transport, whenever the identifier is not a string or is
\* empty or white space only, and accept (build and send the request for) every
\* string that is non-empty after trimming; so do the two builders they use.
C15_IdentifierValidated ==
  /\ unit.fn \in {"buildTransactionStatusRequest", "buildTransactionStatusByIdRequest"} =>
       IF BadIdentifier(unit.arg.v)
         THEN unit.err.kind = "ValidationError" /\ unit.request = NoRequest
         ELSE unit.err = NoError /\ unit.request # NoRequest
  /\ (pc # "idle" /\ operation \in StatusLookups) =>
       IF BadIdentifier(arg.v)
         THEN /\ pc = "done"
              /\ outcome.err.kind = "ValidationError"
              /\ outcome.result = NoResult
              /\ request = NoRequest
              /\ transportCalls = 0
         ELSE request # NoRequest /\ transportCalls = 1

C15_Witness ==
  /\ pc = "done"
  /\ operation = "getTransactionStatusById"
  /\ arg.v = Str("  ")
  /\ outcome.err = ValidationError("transactionId cannot be empty or whitespace only")
  /\ transportCalls = 0

EnvelopeFields == {"statusCode", "status", "message"}

\* The messages of the errors validateResponseStructure raises
StructureMessages ==
  {"Response is null or undefined", "Response data is null or undefined",
   "Response data is not an object"}

\* C16: both success-path parsers raise ValidationError, and return no result,
\* whenever the response is absent, its body is null or undefined, its body is
\* not an object, or its body lacks any of statusCode, status, message; the
\* structural check comes first, and the check for the three fields comes
\* before the status or any other field of the body is interpreted.
C16_StructureCheckedFirst ==
  unit.fn \in SuccessParsers =>
    LET r == unit.arg
        unstructured == r.v \in {Undefined, Null} \/ r.data.v.t # "object"
        lacking == \E f \in EnvelopeFields : r.data.o[f] = Undefined
    IN /\ unstructured =>
            /\ unit.err.kind = "ValidationError"
            /\ unit.err.message \in StructureMessages
            /\ unit.result = NoResult
       /\ (~unstructured /\ lacking) =>
            /\ unit.err = ValidationError("Invalid response format: missing required fields (statusCode, status, message)")
            /\ unit.result = NoResult

C16_Witness ==
  /\ unit.fn = "parseTransactionStatusResponse"
  /\ unit.arg.data.v = Obj
  /\ unit.arg.data.o["status"] = Str("failed")
  /\ unit.arg.data.o["message"] = Undefined
  /\ unit.err.kind = "ValidationError"
  /\ unit.result = NoResult

InitiateOptionalFields == {"paymentAmount", "invoiceNumber", "paymentUrl"}

\* C17: for every body that has statusCode, status and message, with status not
\* "failed", parseInitiatePaymentResponse returns a result whose statusCode and
\* message are the string forms of the body's values, whose status is the
\* body's status, and which holds paymentAmount, invoiceNumber and paymentUrl,
\* as strings, exactly for those of the three the body has.
C17_InitiateResultCopiesBody ==
  ( /\ unit.fn = "parseInitiatePaymentResponse"
    /\ unit.arg.v = Obj
    /\ unit.arg.data.v = Obj
    /\ \A f \in EnvelopeFields : unit.arg.data.o[f] # Undefined
    /\ unit.arg.data.o["status"] # Str("failed") )
  => LET o == unit.arg.data.o IN
     /\ unit.err = NoError
     /\ DOMAIN unit.result = EnvelopeFields \cup { f \in InitiateOptionalFields : o[f] # Undefined }
     /\ unit.result["statusCode"] = Str(ToStr(o["statusCode"]))
     /\ unit.result["status"] = o["status"]
     /\ unit.result["message"] = Str(ToStr(o["message"]))
     /\ \A f \in DOMAIN unit.result \ EnvelopeFields : unit.result[f] = Str(ToStr(o[f]))

ApiStatuses == {Str("success"), Str("failed")}
TransactionStatuses == {Str("processing"), Str("success"), Str("failed"), Str("refund")}

\* C18: every result returned by parseInitiatePaymentResponse or
\* parseTransactionStatusResponse has status "success" or "failed", and every
\* transaction record returned has transactionStatus among processing, success,
\* failed, refund.
C18_EnumeratedStatuses ==
  (unit.fn \in SuccessParsers /\ unit.err = NoError) =>
    /\ unit.result["status"] \in ApiStatuses
    /\ ("data" \in DOMAIN unit.result =>
          unit.result["data"]["transactionStatus"] \in TransactionStatuses)

TxnRequiredFields == {"invoiceNumber", "transactionStatus", "transactionId"}

\* The body of a direct call passed the parser's checks of statusCode, status
\* and message
EnvelopePassed ==
  /\ unit.arg.v = Obj
  /\ unit.arg.data.v = Obj
  /\ \A f \in EnvelopeFields : Truthy(unit.arg.data.o[f])
  /\ unit.arg.data.o["status"] # Str("failed")

\* C19: in parseTransactionStatusResponse, for a body that passed the
\* statusCode/status/message checks: a data field that is a string, a number or
\* a boolean, or an object lacking any of invoiceNumber, transactionStatus,
\* transactionId, raises ValidationError with no result; without a data field
\* the result has no data; an object with the three fields gives a result whose
\* data is the parsed record.
C19_NestedDataChecked ==
  (unit.fn = "parseTransactionStatusResponse" /\ EnvelopePassed) =>
    LET dv == unit.arg.data.o["data"]
        d == unit.arg.data.d
    IN IF dv = Undefined
         THEN unit.err = NoError /\ "data" \notin DOMAIN unit.result
       ELSE IF TypeOf(dv) \in {"string", "number", "boolean"}
               \/ (dv = Obj /\ \E f \in TxnRequiredFields : d[f] = Undefined)
         THEN unit.err.kind = "ValidationError" /\ unit.result = NoResult
       ELSE IF dv = Obj
         THEN /\ unit.err = NoError
              /\ "data" \in DOMAIN unit.result
              /\ unit.result["data"]["transactionId"] = Str(ToStr(d["transactionId"]))
       ELSE TRUE

\* C20: in every transaction record returned, invoiceNumber and transactionId
\* are the string forms of the body's values and transactionStatus is the
\* body's value; paymentAmount and orderDateTime are the string form of the
\* body's value whenever the body has the field (0 included) and the empty
\* string exactly when the body lacks it; their absence never makes parsing fail.
C20_TransactionRecordFields ==
  (unit.fn = "parseTransactionStatusResponse" /\ EnvelopePassed /\ unit.arg.data.o["data"] = Obj) =>
    LET d == unit.arg.data.d IN
    /\ (\A f \in TxnRequiredFields : Truthy(d[f])) => unit.err = NoError
    /\ unit.err = NoError =>
         LET rec == unit.result["data"] IN
         /\ rec["invoiceNumber"] = Str(ToStr(d["invoiceNumber"]))
         /\ rec["transactionId"] = Str(ToStr(d["transactionId"]))
         /\ rec["transactionStatus"] = d["transactionStatus"]
         /\ \A f \in {"paymentAmount", "orderDateTime"} :
              rec[f] = IF d[f] # Undefined THEN Str(ToStr(d[f])) ELSE Str("")

TxnOptionalStrings ==
  {"payerMobileNumber", "paymentMethod", "reference", "checkoutItems", "transactionDate",
   "requestAmount"}

\* C21: in every transaction record returned, each of payerMobileNumber,
\* paymentMethod, reference, checkoutItems, transactionAmount, transactionDate,
\* requestAmount is in the record if and only if it is in the nested body
\* object, transactionAmount as a number and the others as strings; and a
\* status lookup's outcome is the same for getTransactionStatus and
\* getTransactionStatusById, depending on the response only.
C21_OptionalRecordFields ==
  /\ (unit.fn = "parseTransactionStatusResponse" /\ unit.err = NoError /\ "data" \in DOMAIN unit.result) =>
       LET d == unit.arg.data.d
           rec == unit.result["data"]
       IN /\ \A f \in TxnOptionalStrings \cup {"transactionAmount"} :
               (f \in DOMAIN rec) <=> (d[f] # Undefined)
          /\ \A f \in TxnOptionalStrings \cap DOMAIN rec : rec[f] = Str(ToStr(d[f]))
          /\ ("transactionAmount" \in DOMAIN rec => TypeOf(rec["transactionAmount"]) = "number")
  /\ (pc = "done" /\ operation \in StatusLookups /\ request # NoRequest) =>
       \A op \in StatusLookups :
         [err |-> raised, result |-> outcome.result] = AfterTransport(op, settled)

C23_ConcurrentCallsIndependent ==
  \A i \in 1..MaxCalls :
    LET c == inflight[i] IN
    /\ c.pc \in {"awaiting", "settled", "done"} =>
         c.request = BuildRequest(c.operation, config, c.arg).request
    /\ c.pc = "done" => c.outcome = RunAlone(c.operation, config, c.arg, c.settled)

C23_Witness ==
  /\ inflight[1].pc = "settled"
  /\ inflight[1].operation = "initiatePayment"
  /\ inflight[1].settled.response.status = Num(401)
  /\ inflight[2].pc = "done"
  /\ inflight[2].operation = "getTransactionStatusById"
  /\ inflight[2].outcome.err = NoError
  /\ "data" \in DOMAIN inflight[2].outcome.result

\* C24: once an instance is constructed its merchant id, password, environment
\* and base URL are those given at construction and never change: not by a
\* builder or facade call, successful or failing, and not when the caller later
\* changes the config object it passed to the constructor.
C24_ConfigFixedAfterConstruction ==
  [][ /\ (~constructed /\ constructed') =>
           /\ getMerchantId(config') = unit'.arg.o["merchantId"].s
           /\ getPassword(config') = unit'.arg.o["password"].s
           /\ getEnvironment(config') = unit'.arg.o["environment"].s
           /\ getBaseUrl(config') = BASE_URLS[unit'.arg.o["environment"].s]
      /\ constructed =>
           /\ constructed'
           /\ getMerchantId(config') = getMerchantId(config)
           /\ getPassword(config') = getPassword(config)
           /\ getEnvironment(config') = getEnvironment(config)
           /\ getBaseUrl(config') = getBaseUrl(config) ]_vars

C24_Witness ==
  /\ constructed
  /\ unit.fn = "callerMutatesConfig"
  /\ unit.arg.o["merchantId"] = Str("changed")
  /\ getMerchantId(config) = "m1"
  /\ getBaseUrl(config) = "https://api.paystation.com.bd"

\* The content type for which request decodes the body as JSON
IsJsonContentType(c) == c.t = "string" /\ Includes(c.s, "application/json")

\* The first thing that fails in a request whose fetcher settles as f, NoError
\* when nothing does; a fetcher that resolves with no Response fails in the
\* runtime with a TypeError
UnderlyingFailure(f) ==
  IF f.fetch # NoError THEN f.fetch
  ELSE IF f.resolved # Obj THEN ForeignError("TypeError", "no response")
  ELSE IF IsJsonContentType(f.contentType) THEN f.body.json.err
  ELSE f.body.text.err

\* What request gives for f when every failure surfaces as a NetworkError with
\* the underlying error as cause, except the NetworkErrors in passedOn, which
\* are passed on as they are
RequestContract(f, passedOn) ==
  LET u == UnderlyingFailure(f) IN
  /\ unit.err.kind \in {"none", "NetworkError"}
  /\ (unit.err = NoError) <=> (u = NoError)
  /\ u = NoError =>
       unit.result = Response(f.status, f.statusText,
                              IF IsJsonContentType(f.contentType)
                                THEN f.body.json.data ELSE f.body.text.data)
  /\ u # NoError =>
       /\ unit.result = NoResult
       /\ IF u \in passedOn THEN unit.err = u
          ELSE /\ Len(unit.err.originalError) = 1
               /\ IF f.fetch = NoError /\ f.resolved # Obj
                    THEN unit.err.originalError[1].kind = "TypeError"
                    ELSE unit.err.originalError = <<u>>

\* C25: request returns {status, statusText, data}, data the decoded JSON
\* when the content type includes application/json and the raw text otherwise,
\* or raises NetworkError with the underlying error as cause; a NetworkError
\* raised inside (by the fetcher, or by request itself when the JSON body does
\* not decode: "Failed to parse JSON response") reaches the caller as it is and
\* is not wrapped in another. This holds of every call, whatever other calls of
\* request are in flight on the same client.
C25_RequestReturnsOrNetworkError ==
  unit.fn = "request" =>
    /\ RequestContract(unit.arg, {e \in {unit.arg.fetch} : e.kind = "NetworkError"})
    /\ (unit.arg.resolved = Obj /\ IsJsonContentType(unit.arg.contentType)
          /\ unit.arg.body.json.err # NoError)
         => unit.err = NetworkError("Failed to parse JSON response", <<unit.arg.body.json.err>>)

C25_Witness ==
  /\ unit.fn = "request"
  /\ unit.arg.resolved = Obj
  /\ unit.arg.contentType = Str("application/json; charset=utf-8")
  /\ unit.arg.body.json.err.kind = "SyntaxError"
  /\ unit.err.message = "Failed to parse JSON response"
  /\ unit.err.originalError[1].kind = "SyntaxError"
  /\ requestCalls[1].pc = "idle"
  /\ requestCalls[2].pc = "reading"

\* The decimal text of a number: digits, with a "-" before them when it is
\* negative and a "." in them when it is not an integer
DecimalText(v) ==
  IF v.s = "" THEN IntToString(v.n)
  ELSE (IF v.n < 0 THEN "-" ELSE "")
       \o (IF v.e <= 0 THEN "0" ELSE SubSeq(v.s, 1, v.e)) \o "." \o SubSeq(v.s, v.e + 1, Len(v.s))

\* The optional numeric fields of the initiation parameters
OptionalNumbers == {"payWithCharge", "emi"}

\* unit.arg is the reference input with only the fields in fs changed
OnlyChanged(fs) ==
  /\ unit.arg.v = Obj
  /\ \A f \in DOMAIN BaseParams.o : f \notin fs => unit.arg.o[f] = BaseParams.o[f]

\* C26: with all other fields valid, buildInitiatePaymentRequest raises
\* ValidationError when payWithCharge or emi is supplied and is not a number
\* that is >= 0, and accepts every supplied number >= 0 (0 included), which is
\* then in the body as its decimal string; a field not supplied is not checked
\* and its key is absent.
C26_OptionalNumbersNonNegative ==
  (unit.fn = "buildInitiatePaymentRequest" /\ OnlyChanged(OptionalNumbers)) =>
    IF \E f \in OptionalNumbers :
         /\ unit.arg.o[f] # Undefined
         /\ ~IsNonNegative(unit.arg.o[f])
      THEN unit.err.kind = "ValidationError" /\ unit.request = NoRequest
      ELSE /\ unit.err = NoError
           /\ \A f \in OptionalNumbers :
                BodyValues(unit.request.body, OptionalKey[f]) =
                  IF unit.arg.o[f] = Undefined THEN {} ELSE {DecimalText(unit.arg.o[f])}

\* The form local@domain.tld: exactly one "@", no white space, a non-empty local
\* part, and in the domain part a "." with text on both sides
EmailFormOk(x) ==
  LET ats == { i \in 1..Len(x) : CharAt(x, i) = "@" } IN
  /\ Cardinality(ats) = 1
  /\ \A i \in 1..Len(x) : CharAt(x, i) \notin WhiteSpace
  /\ \A a \in ats : a > 1 /\ \E j \in (a + 2)..(Len(x) - 1) : CharAt(x, j) = "."

\* C27: with all other fields valid, buildInitiatePaymentRequest accepts
\* customerEmail if and only if it is a string of the form local@domain.tld;
\* "no-at-sign" and "a@b" are rejected with ValidationError, "john@example.com"
\* is accepted.
C27_EmailAcceptedIffForm ==
  (unit.fn = "buildInitiatePaymentRequest" /\ OnlyChanged({"customerEmail"})) =>
    LET e == unit.arg.o["customerEmail"] IN
    /\ IF e.t = "string" /\ EmailFormOk(e.s)
         THEN unit.err = NoError /\ unit.request # NoRequest
         ELSE unit.err.kind = "ValidationError" /\ unit.request = NoRequest
    /\ e \in {Str("no-at-sign"), Str("a@b")} => unit.err.kind = "ValidationError"
    /\ e = Str("john@example.com") => unit.err = NoError

C27_Witness ==
  /\ unit.fn = "buildInitiatePaymentRequest" /\ OnlyChanged({"customerEmail"})
  /\ unit.arg.o["customerEmail"] = Str("a@b")
  /\ unit.err = ValidationError("customerEmail must be a valid email address")

\* The callback URLs of the enumerated inputs that new URL() parses as absolute
\* URLs of scheme http or https, and those it rejects or parses with another scheme
HttpUrls ==
  {"https://x.com/cb", "HTTP://x.com:80", " https://x.com/cb ", "ht\ttps://x.com", "http://[::1]:80/",
   "http://u:p@1.2.3.4:8080/cb?a=1#f"}
OtherUrls ==
  {"", "ftp://x.com", "x.com/cb", "http://", "http://256.1.1.1", "https://x\f.com", "http://a%20b.com",
   "http://x.com:65536"}

\* C28: with all other fields valid, buildInitiatePaymentRequest accepts
\* callbackUrl if and only if it parses as an absolute URL whose scheme is http
\* or https; a text that does not parse as an absolute URL or has another scheme
\* (ftp://x.com) is rejected with ValidationError, https://x.com/cb is accepted.
C28_CallbackUrlAcceptedIffHttp ==
  (unit.fn = "buildInitiatePaymentRequest" /\ OnlyChanged({"callbackUrl"})) =>
    LET u == unit.arg.o["callbackUrl"]
        x == UrlInput(u.s)
    IN
    /\ u.t = "string" => u.s \in HttpUrls \cup OtherUrls
    /\ IF u.t = "string" /\ u.s \in HttpUrls
         THEN /\ unit.err = NoError /\ unit.request # NoRequest
              /\ UrlScheme(x) \in {"http", "https"}
              /\ UrlHostOk(SubSeq(x, Len(UrlScheme(x)) + 2, Len(x)))
         ELSE /\ unit.err.kind = "ValidationError" /\ unit.request = NoRequest
              /\ (u.t = "string" /\ ~IsBlank(u.s)) =>
                   unit.err.message = "callbackUrl must be a valid URL"

C28_Witness ==
  /\ unit.fn = "buildInitiatePaymentRequest" /\ OnlyChanged({"callbackUrl"})
  /\ unit.arg.o["callbackUrl"] = Str("ftp://x.com")
  /\ unit.err = ValidationError("callbackUrl must be a valid URL")

\* C29: in each facade method the HTTP status alone selects the parsing path.
\* For a response with status >= 400 the method raises the error of
\* parseErrorResponse and returns no result, whatever the body; for a response
\* with status < 400 that mapping is not applied and the outcome is the one the
\* success-path parser gives for the body, the same for every such status.
C29_StatusSelectsPath ==
  (pc = "done" /\ settled.err = NoError /\ settled.response.v = Obj) =>
    IF settled.response.status.n >= 400
      THEN /\ raised = parseErrorResponse(settled.response)
           /\ outcome.err = raised
           /\ outcome.err # NoError
           /\ outcome.result = NoResult
      ELSE /\ [err |-> raised, result |-> outcome.result]
                = ParseResponse(operation, Response(200, "OK", settled.response.data))
           /\ (raised = NoError <=> outcome.result # NoResult)

C29_Witness ==
  /\ pc = "done"
  /\ operation = "initiatePayment"
  /\ settled.err = NoError
  /\ settled.response.status = Num(400)
  /\ settled.response.data = BaseBody
  /\ ParseResponse(operation, Response(200, "OK", BaseBody)).err = NoError
  /\ outcome.err.kind = "ValidationError"
  /\ outcome.err = parseErrorResponse(settled.response)
  /\ outcome.result = NoResult

\* The parameter each body key of an initiation request is taken from
FieldOfKey ==
  [invoice_number |-> "invoiceNumber", payment_amount |-> "paymentAmount",
   customer_name |-> "customerName", customer_phone |-> "customerPhone",
   customer_email |-> "customerEmail", callback_url |-> "callbackUrl",
   currency |-> "currency", pay_with_charge |-> "payWithCharge", reference |-> "reference",
   customer_address |-> "customerAddress", checkout_items |-> "checkoutItems",
   opt_a |-> "optA", opt_b |-> "optB", opt_c |-> "optC", emi |-> "emi"]

NumericFields == {"paymentAmount", "payWithCharge", "emi"}

\* Every caller-supplied pair of body carries the caller's value as it was
\* given: a string exactly, a number as its decimal string, and nothing but a
\* string or a number is sent
SentAsGiven(name, a, body) ==
  \A i \in 1..Len(body) :
    LET key == body[i][1]
        sent == body[i][2]
    IN key \notin {"merchant_id", "password"} =>
         IF name \in {"buildInitiatePaymentRequest", "initiatePayment"}
           THEN /\ key \in DOMAIN FieldOfKey
                /\ LET given == a.o[FieldOfKey[key]] IN
                   IF FieldOfKey[key] \in NumericFields
                     THEN /\ given.t \in {"number", "nan", "infinity"}
                          /\ sent = ToStr(given)
                          /\ given.t = "number" => sent = DecimalText(given)
                     ELSE /\ given.t \in {"string", "number"}
                          /\ given.t = "string" => sent = given.s
                          /\ given.t = "number" => sent = DecimalText(given)
           ELSE /\ key = (IF name \in {"buildTransactionStatusRequest", "getTransactionStatus"}
                            THEN "invoice_number" ELSE "trx_id")
                /\ a.v.t = "string" /\ sent = a.v.s

\* C30: validation never alters what is sent.  Every string field of a built
\* request body (required, optional, the status-lookup identifier) is the
\* caller's value exactly, leading and trailing white space included, and every
\* numeric field is the decimal string of the caller's number; a build that
\* fails produces no request, not even a partial one, sends nothing and leaves
\* the instance as it was.
C30_SentAsGiven ==
  /\ [](unit.fn \in Builders =>
          IF unit.err = NoError
            THEN unit.request # NoRequest /\ SentAsGiven(unit.fn, unit.arg, unit.request.body)
            ELSE unit.request = NoRequest)
  /\ [](pc \in {"awaiting", "settled", "done"} =>
          IF request # NoRequest
            THEN SentAsGiven(operation, arg, request.body)
            ELSE pc = "done" /\ transportCalls = 0 /\ outcome.result = NoResult
                 /\ outcome.err # NoError)
  /\ [][(unit'.fn \in Builders /\ unit' # unit) => (config' = config /\ constructed' = constructed)]_vars

====
